---- MODULE Spec2Model ----
(***************************************************************************)
(* A model of the ATLAS decision pipeline (cmg07/atlas_v7):                *)
(*   - VerdictEngine.decide          src/core/logic/verdict.py             *)
(*   - SafetyGuard.validate          src/core/execution/safety_guard.py    *)
(*                                   src/app.py (second implementation)    *)
(*   - SQLiteStore ledger            src/database/sqlite_store.py          *)
(*   - the LOG ORDER flow            src/interface/pages/deep_dive.py      *)
(*                                   src/app.py main                       *)
(*                                                                         *)
(* Numbers.  The code computes with floats; the model computes on integer  *)
(* grids: money in cents, percentages in whole percent, the final score in *)
(* tenths, drawdown in hundredths (so that dd * 100 is the integer itself).*)
(* Times of day are records [h, m, s].                                     *)
(*                                                                         *)
(* Specifications.                                                         *)
(*   VerdictSpec      one call of decide, rule by rule, in code order      *)
(*   VerdictPermSpec  the same eight rules applied in an arbitrary order   *)
(*   GuardSpec        one call of SafetyGuard.validate, check by check     *)
(*   Spec             concurrent sessions of the LOG ORDER flow on one     *)
(*                    shared ledger                                        *)
(*   CostSpec         one call of CostEngine.compute                       *)
(*   RegimeSpec       one call of RegimeEngine.analyze, statement by       *)
(*                    statement                                            *)
(*   ScoreSpec        one call of ScoreEngine.multi                        *)
(*   RuinSpec         calls of RiskEngine.monte_carlo_ruin on numpy's      *)
(*                    global generator                                     *)
(*   AnalysisSpec     one ANALYZE request, from the cost to the verdict    *)
(***************************************************************************)
EXTENDS Integers, Sequences, FiniteSets, TLC

VARIABLES
    \* ---- VerdictEngine.decide ----
    vin,        \* the arguments of the call
    vpc,        \* "rules" while the cascade runs, "done" once decide returned
    vdone,      \* the rules already evaluated
    status,     \* local variable status
    reasons,    \* local variable reasons
    vout,       \* the returned dict
    \* ---- environment of the SafetyGuard ----
    cfg,            \* SafetyConfig
    broker_online,  \* what BrokerBase.ping() answers
    positions,      \* tickers of BrokerBase.get_open_positions()
    now,            \* market-local wall clock, [h, m, s]
    today,          \* current UTC date (a day number)
    ledger,         \* rows of table ledger, in insertion (id) order
    \* ---- one call of SafetyGuard.validate ----
    gcall,      \* the call: [impl, ticker, capital]
    gpc,        \* "ping", "time", "position", "kill", "ok", "returned"
    gtrace,     \* the checks evaluated so far, in order
    gres,       \* the returned dict
    \* ---- sessions of the LOG ORDER flow ----
    sess,       \* per session: [pc, impl, ticker, capital, safety]
    \* ---- one call of an engine, or one ANALYZE request ----
    ain,        \* the arguments of the call
    apc,        \* the statement the call is at
    aloc,       \* its local variables
    aout,       \* what it returned, raised or reported
    \* ---- numpy's global random generator ----
    np_random,  \* the uniform samples it will produce next, as a cycle
    runs        \* the calls of monte_carlo_ruin made so far, with results

vvars == <<vin, vpc, vdone, status, reasons, vout>>
evars == <<cfg, broker_online, positions, now, today, ledger>>
gvars == <<gcall, gpc, gtrace, gres>>
avars == <<ain, apc, aloc, aout>>
rvars == <<np_random, runs>>
vars  == <<vin, vpc, vdone, status, reasons, vout,
           cfg, broker_online, positions, now, today, ledger,
           gcall, gpc, gtrace, gres, sess,
           ain, apc, aloc, aout, np_random, runs>>

(***************************************************************************)
(* Generic helpers                                                         *)
(***************************************************************************)
Range(s) == {s[i] : i \in 1..Len(s)}

\* Python's `sub in s` on strings; a string is a sequence of characters.
Contains(sub, s) ==
    \E i \in 1..(Len(s) - Len(sub) + 1) : SubSeq(s, i, i + Len(sub) - 1) = sub

(***************************************************************************)
(* VerdictEngine.decide  (src/core/logic/verdict.py, src/app.py)           *)
(***************************************************************************)
\* Regime labels, as the character strings RegimeEngine.analyze builds.
L_TRANSITION == <<"T","R","A","N","S","I","T","I","O","N">>
L_UPTREND    == <<"U","P","T","R","E","N","D">>
L_STRESS     == <<"S","T","R","E","S","S">>
L_VOL        == <<"V","O","L">>
L_VOL_EXT    == <<"V","O","L"," ","E","X","T">>
\* decide tests each marker with its own `if`: a label carrying both.
L_STRESS_VOL == <<"S","T","R","E","S","S"," ","V","O","L">>
M_STRESS     == <<"S","T","R","E","S","S">>
M_VOL        == <<"V","O","L">>

\* `if regime["score"] < 35`, `if score < 40`
OperabilityMin == 35
ScoreMin       == 40

Rank(s) == CASE s = "AUTORIZADO" -> 0 [] s = "DEFENSIVO" -> 1 [] s = "BLOQUEIO" -> 2

\* The conditions of the eight `if` statements, without the status test.
Trigger(i, in) ==
    CASE i = 1 -> in.cost.blocked
      [] i = 2 -> Contains(M_STRESS, in.regime.label)
      [] i = 3 -> Contains(M_VOL, in.regime.label)
      [] i = 4 -> in.regime.vol > in.strict_vol
      [] i = 5 -> in.regime.dd < in.strict_dd_pct          \* dd in hundredths
      [] i = 6 -> in.ruin_pct > in.ruin_threshold
      [] i = 7 -> in.regime.score < OperabilityMin
      [] i = 8 -> in.score < ScoreMin * 10                 \* score in tenths

ReasonCode(i) ==
    CASE i = 1 -> "COST_BLOCK"
      [] i = 2 -> "REGIME_STRESS"
      [] i = 3 -> "REGIME_VOL"
      [] i = 4 -> "VOL_LIMIT"
      [] i = 5 -> "DD_LIMIT"
      [] i = 6 -> "RUIN_HIGH"
      [] i = 7 -> "OPERABILITY_LOW"
      [] i = 8 -> "SCORE_LOW"

\* Each rule maps the locals st = [status, reasons] to their new values.
RuleCostBlock_OnlyIfAuthorized(in, st) ==
    IF Trigger(1, in) /\ st.status = "AUTORIZADO"
    THEN [status |-> "BLOQUEIO", reasons |-> Append(st.reasons, ReasonCode(1))]
    ELSE st

RuleCostBlock(in, st) ==
    IF Trigger(1, in)
    THEN [status |-> "BLOQUEIO", reasons |-> Append(st.reasons, ReasonCode(1))]
    ELSE st

RuleRegimeStress(in, st) ==
    IF Trigger(2, in)
    THEN [status  |-> IF st.status # "BLOQUEIO" THEN "DEFENSIVO" ELSE st.status,
          reasons |-> Append(st.reasons, ReasonCode(2))]
    ELSE st

RuleRegimeVol_NoStatusTest(in, st) ==
    IF Trigger(3, in)
    THEN [status |-> "DEFENSIVO", reasons |-> Append(st.reasons, ReasonCode(3))]
    ELSE st

RuleRegimeVol(in, st) ==
    IF Trigger(3, in)
    THEN [status  |-> IF st.status # "BLOQUEIO" THEN "DEFENSIVO" ELSE st.status,
          reasons |-> Append(st.reasons, ReasonCode(3))]
    ELSE st

RuleVolLimit(in, st) ==
    IF Trigger(4, in)
    THEN [status  |-> IF st.status # "BLOQUEIO" THEN "DEFENSIVO" ELSE st.status,
          reasons |-> Append(st.reasons, ReasonCode(4))]
    ELSE st

RuleDdLimit(in, st) ==
    IF Trigger(5, in)
    THEN [status  |-> IF st.status # "BLOQUEIO" THEN "DEFENSIVO" ELSE st.status,
          reasons |-> Append(st.reasons, ReasonCode(5))]
    ELSE st

RuleRuinHigh_NoStatusTest(in, st) ==
    IF Trigger(6, in)
    THEN [status |-> "DEFENSIVO", reasons |-> Append(st.reasons, ReasonCode(6))]
    ELSE st

RuleRuinHigh(in, st) ==
    IF Trigger(6, in)
    THEN [status  |-> IF st.status # "BLOQUEIO" THEN "DEFENSIVO" ELSE st.status,
          reasons |-> Append(st.reasons, ReasonCode(6))]
    ELSE st

\* Rules 7 and 8 test the status in the `if` itself: neither the status nor
\* the reasons change once the status is BLOQUEIO.
RuleOperabilityLow(in, st) ==
    IF Trigger(7, in) /\ st.status # "BLOQUEIO"
    THEN [status |-> "DEFENSIVO", reasons |-> Append(st.reasons, ReasonCode(7))]
    ELSE st

RuleScoreLow(in, st) ==
    IF Trigger(8, in) /\ st.status # "BLOQUEIO"
    THEN [status |-> "DEFENSIVO", reasons |-> Append(st.reasons, ReasonCode(8))]
    ELSE st

ApplyRule(i, in, st) ==
    CASE i = 1 -> RuleCostBlock(in, st)
      [] i = 2 -> RuleRegimeStress(in, st)
      [] i = 3 -> RuleRegimeVol(in, st)
      [] i = 4 -> RuleVolLimit(in, st)
      [] i = 5 -> RuleDdLimit(in, st)
      [] i = 6 -> RuleRuinHigh(in, st)
      [] i = 7 -> RuleOperabilityLow(in, st)
      [] i = 8 -> RuleScoreLow(in, st)

Command(s) ==
    CASE s = "AUTORIZADO" -> "READY" [] s = "DEFENSIVO" -> "DEFENSIVE" [] s = "BLOQUEIO" -> "BLOCKED"

\* the return statement without `or ["OK"]`
VerdictReturn_NoOk(st) ==
    [status |-> st.status, command |-> Command(st.status), reasons |-> st.reasons]

\* command = {...}[status]; return {..., "reasons": reasons or ["OK"]}
VerdictReturn(st) ==
    [status  |-> st.status,
     command |-> Command(st.status),
     reasons |-> IF st.reasons = <<>> THEN <<"OK">> ELSE st.reasons]

VerdictStart == [status |-> "AUTORIZADO", reasons |-> <<>>]

\* The locals after the rules of the sequence `order` ran, in that order.
RECURSIVE RunRules(_, _, _)
RunRules(order, in, st) ==
    IF order = <<>> THEN st
    ELSE RunRules(Tail(order), in, ApplyRule(Head(order), in, st))

CodeOrder == <<1, 2, 3, 4, 5, 6, 7, 8>>

\* decide as a function of its arguments
decide(in) == VerdictReturn(RunRules(CodeOrder, in, VerdictStart))

\* ---- inputs ----
VerdictInput(b, l, v, d, op, ru, sc, sv, sd, rt) ==
    [cost   |-> [blocked |-> b],
     regime |-> [label |-> l, vol |-> v, dd |-> d, score |-> op],
     ruin_pct |-> ru, score |-> sc,
     strict_vol |-> sv, strict_dd_pct |-> sd, ruin_threshold |-> rt]

VerdictLabels == {L_TRANSITION, L_UPTREND, L_STRESS, L_VOL, L_VOL_EXT, L_STRESS_VOL}

\* strict_vol / strict_dd_pct of the profiles Defensive and Trend
VerdictInputs ==
    {VerdictInput(b, l, v, d, op, ru, sc, sv, sd, rt) :
        b \in BOOLEAN, l \in VerdictLabels, v \in {40, 50}, d \in {-25, 0},
        op \in {34, 35}, ru \in {0, 12}, sc \in {399, 400},
        sv \in {45, 60}, sd \in {-20, -35}, rt \in {5, 20}}

\* One input per combination of the eight conditions.
PermInputs ==
    {VerdictInput(b, l, v, d, op, ru, sc, 45, -20, 5) :
        b \in BOOLEAN, l \in {L_UPTREND, L_STRESS, L_VOL, L_STRESS_VOL},
        v \in {40, 50}, d \in {-25, 0}, op \in {34, 35}, ru \in {0, 12},
        sc \in {399, 400}}

NoVerdict == [status |-> "", command |-> "", reasons |-> <<>>]

VIdle ==
    /\ vin = VerdictInput(FALSE, L_TRANSITION, 0, 0, 100, 0, 1000, 45, -20, 5)
    /\ vpc = "idle" /\ vdone = {} /\ status = "AUTORIZADO" /\ reasons = <<>>
    /\ vout = NoVerdict

\* ---- one call of decide ----
VRule(i) ==
    /\ vpc = "rules"
    /\ LET st == ApplyRule(i, vin, [status |-> status, reasons |-> reasons])
       IN  /\ status' = st.status
           /\ reasons' = st.reasons
    /\ vdone' = vdone \cup {i}
    /\ UNCHANGED <<vin, vpc, vout, evars, gcall, gpc, gtrace, gres, sess, avars, rvars>>

VCostBlock      == vdone = {}   /\ VRule(1)
VRegimeStress   == vdone = 1..1 /\ VRule(2)
VRegimeVol      == vdone = 1..2 /\ VRule(3)
VVolLimit       == vdone = 1..3 /\ VRule(4)
VDdLimit        == vdone = 1..4 /\ VRule(5)
VRuinHigh       == vdone = 1..5 /\ VRule(6)
VOperabilityLow == vdone = 1..6 /\ VRule(7)
VScoreLow       == vdone = 1..7 /\ VRule(8)

VReturn ==
    /\ vpc = "rules" /\ vdone = 1..8
    /\ vout' = VerdictReturn([status |-> status, reasons |-> reasons])
    /\ vpc' = "done"
    /\ UNCHANGED <<vin, vdone, status, reasons, evars, gcall, gpc, gtrace, gres, sess, avars, rvars>>

\* the rules in an arbitrary order
VAnyRule == \E i \in (1..8) \ vdone : VRule(i)

(***************************************************************************)
(* Text: decimal digits, "HH:MM" parsing, "{x:.2f}" formatting             *)
(***************************************************************************)
DigitChars == <<"0", "1", "2", "3", "4", "5", "6", "7", "8", "9">>

DigitVal(c) == (CHOOSE d \in 1..10 : DigitChars[d] = c) - 1

\* int(text) for a text of decimal digits
RECURSIVE ToInt(_)
ToInt(txt) ==
    IF txt = <<>> THEN 0
    ELSE 10 * ToInt(SubSeq(txt, 1, Len(txt) - 1)) + DigitVal(txt[Len(txt)])

\* str(n) for n >= 0
RECURSIVE DecDigits(_)
DecDigits(n) ==
    IF n < 10 THEN <<DigitChars[n + 1]>>
    ELSE DecDigits(n \div 10) \o <<DigitChars[(n % 10) + 1]>>

Abs(x) == IF x < 0 THEN -x ELSE x

\* f"{x:.2f}" for an amount of c cents
Fmt2(c) ==
    (IF c < 0 THEN <<"-">> ELSE <<>>)
        \o DecDigits(Abs(c) \div 100)
        \o <<".", DigitChars[((Abs(c) % 100) \div 10) + 1], DigitChars[(Abs(c) % 10) + 1]>>

(***************************************************************************)
(* SQLiteStore: the ledger  (src/database/sqlite_store.py)                 *)
(***************************************************************************)
\* A ledger row keeps the columns the program reads back: the date part of
\* timestamp_utc (substr(timestamp_utc, 1, 10)), ticker and realized_pnl
\* (cents).
LedgerRow(d, t, p) == [date |-> d, ticker |-> t, realized_pnl |-> p]

\* INSERT INTO ledger ...: the new row gets the next id
log_order(rows, row) == Append(rows, row)

RECURSIVE SumPnl(_, _)
SumPnl(rows, d) ==
    IF rows = <<>> THEN 0
    ELSE (IF Head(rows).date = d THEN Head(rows).realized_pnl ELSE 0)
            + SumPnl(Tail(rows), d)

\* SELECT COALESCE(SUM(realized_pnl), 0.0) FROM ledger
\*   WHERE substr(timestamp_utc, 1, 10) = ?
daily_realized_pnl(rows, date_utc) == SumPnl(rows, date_utc)

(***************************************************************************)
(* SafetyGuard  (src/core/execution/safety_guard.py, src/app.py)           *)
(***************************************************************************)
Time(h, m, s) == [h |-> h, m |-> m, s |-> s]

\* datetime comparison of two wall-clock times of the same day and zone
TimeLeq(a, b) ==
    \/ a.h < b.h
    \/ a.h = b.h /\ a.m < b.m
    \/ a.h = b.h /\ a.m = b.m /\ a.s <= b.s

\* h, m = hhmm.split(":"); return int(h), int(m)
_parse_hhmm(hhmm) ==
    LET k == CHOOSE i \in 1..Len(hhmm) : hhmm[i] = ":"
    IN  <<ToInt(SubSeq(hhmm, 1, k - 1)), ToInt(SubSeq(hhmm, k + 1, Len(hhmm)))>>

\* a window whose start is later than its end runs over midnight
_in_range_Overnight(t, start, end) ==
    LET st == Time(_parse_hhmm(start)[1], _parse_hhmm(start)[2], 0)
        en == Time(_parse_hhmm(end)[1], _parse_hhmm(end)[2], 0)
    IN  IF TimeLeq(st, en) THEN TimeLeq(st, t) /\ TimeLeq(t, en)
        ELSE TimeLeq(st, t) \/ TimeLeq(t, en)

\* st = now.replace(hour=sh, minute=sm, second=0, ...); return st <= now <= en
_in_range(t, start, end) ==
    LET st == Time(_parse_hhmm(start)[1], _parse_hhmm(start)[2], 0)
        en == Time(_parse_hhmm(end)[1], _parse_hhmm(end)[2], 0)
    IN  TimeLeq(st, t) /\ TimeLeq(t, en)

Result(ok, reason) == [ok |-> ok, reason |-> reason]
R_OK == <<"OK">>

_is_trading_time_NoCloseAuction(c, t) ==
    IF _in_range(t, c.auction_pre_open_start, c.auction_pre_open_end)
    THEN Result(FALSE, <<"AUCTION_PRE_OPEN">>)
    ELSE IF ~_in_range(t, c.open_hhmm, c.close_hhmm)
    THEN Result(FALSE, <<"OUTSIDE_MARKET_HOURS">>)
    ELSE Result(TRUE, R_OK)

_is_trading_time(c, t) ==
    IF _in_range(t, c.auction_pre_open_start, c.auction_pre_open_end)
    THEN Result(FALSE, <<"AUCTION_PRE_OPEN">>)
    ELSE IF _in_range(t, c.auction_close_start, c.auction_close_end)
    THEN Result(FALSE, <<"AUCTION_CLOSE">>)
    ELSE IF ~_in_range(t, c.open_hhmm, c.close_hhmm)
    THEN Result(FALSE, <<"OUTSIDE_MARKET_HOURS">>)
    ELSE Result(TRUE, R_OK)

\* limit = -(capital * (max_daily_loss_pct / 100.0)), in cents
DailyLossLimit(c, capital) == -(capital * c.max_daily_loss_pct)

\* f"KILL_SWITCH_DAILY_LOSS pnl={pnl:.2f} limit={limit:.2f}"
KillReason(pnl, limit) ==
    <<"KILL_SWITCH_DAILY_LOSS", " pnl=">> \o Fmt2(pnl) \o <<" limit=">> \o Fmt2(limit)

_kill_switch_Strict(c, rows, date_utc, capital) ==
    LET pnl   == daily_realized_pnl(rows, date_utc)
        limit == DailyLossLimit(c, capital)
    IN  IF pnl < limit THEN Result(FALSE, KillReason(pnl, limit))
        ELSE Result(TRUE, R_OK)

_kill_switch(c, rows, date_utc, capital) ==
    LET pnl   == daily_realized_pnl(rows, date_utc)
        limit == DailyLossLimit(c, capital)
    IN  IF pnl <= limit THEN Result(FALSE, KillReason(pnl, limit))
        ELSE Result(TRUE, R_OK)

\* str.upper() on the tickers of the model
Upper(t) == CASE t = "petr4.sa" -> "PETR4.SA" [] OTHER -> t

\* for p in positions: if str(p.get("ticker", "")).upper() == ticker.upper()
_position_check(open_positions, ticker) ==
    IF \E p \in open_positions : Upper(p) = Upper(ticker)
    THEN Result(FALSE, <<"POSITION_ALREADY_OPEN">>)
    ELSE Result(TRUE, R_OK)

\* core/execution/safety_guard.py runs the position check, the SafetyGuard of
\* src/app.py has none.
\* SafetyGuard.validate as a function of what it reads
validate(impl, c, online, t, open_positions, rows, date_utc, ticker, capital) ==
    IF ~online THEN Result(FALSE, <<"BROKER_OFFLINE">>)
    ELSE IF ~_is_trading_time(c, t).ok THEN _is_trading_time(c, t)
    ELSE IF impl = "core" /\ ~_position_check(open_positions, ticker).ok
    THEN _position_check(open_positions, ticker)
    ELSE IF ~_kill_switch(c, rows, date_utc, capital).ok
    THEN _kill_switch(c, rows, date_utc, capital)
    ELSE Result(TRUE, R_OK)

(***************************************************************************)
(* Bounds and input sets of the SafetyGuard specifications                 *)
(***************************************************************************)
MaxDay  == 1      \* UTC dates are 0..MaxDay
MaxRows == 2      \* ledger rows present when a single validate call runs
MaxLedger == 2    \* ledger rows the sessions may add

\* SafetyConfig defaults of src/app.py
CfgDefault ==
    [open_hhmm |-> <<"1","0",":","0","0">>, close_hhmm |-> <<"1","7",":","5","5">>,
     auction_pre_open_start |-> <<"0","9",":","4","5">>,
     auction_pre_open_end   |-> <<"1","0",":","0","0">>,
     auction_close_start    |-> <<"1","7",":","4","5">>,
     auction_close_end      |-> <<"1","8",":","1","0">>,
     max_daily_loss_pct |-> 3]

\* blackout windows that do not touch the trading window
CfgDisjoint ==
    [open_hhmm |-> <<"0","9",":","0","0">>, close_hhmm |-> <<"1","7",":","0","0">>,
     auction_pre_open_start |-> <<"0","8",":","3","0">>,
     auction_pre_open_end   |-> <<"0","8",":","5","9">>,
     auction_close_start    |-> <<"1","7",":","0","1">>,
     auction_close_end      |-> <<"1","7",":","3","0">>,
     max_daily_loss_pct |-> 1]

\* a trading window whose start is later than its end
CfgNight ==
    [open_hhmm |-> <<"2","2",":","0","0">>, close_hhmm |-> <<"0","2",":","0","0">>,
     auction_pre_open_start |-> <<"2","1",":","4","5">>,
     auction_pre_open_end   |-> <<"2","2",":","0","0">>,
     auction_close_start    |-> <<"0","2",":","0","0">>,
     auction_close_end      |-> <<"0","2",":","1","0">>,
     max_daily_loss_pct |-> 3]

Configs == {CfgDefault, CfgDisjoint, CfgNight}

GuardTimes ==
    {Time(1, 0, 0), Time(8, 45, 0), Time(9, 44, 59), Time(9, 45, 0), Time(10, 0, 0),
     Time(10, 0, 1), Time(12, 0, 0), Time(17, 0, 30), Time(17, 44, 59),
     Time(17, 45, 0), Time(17, 55, 0), Time(18, 10, 0), Time(18, 10, 1),
     Time(23, 0, 0),
     Time(0, 0, 0), Time(2, 0, 0), Time(2, 0, 1), Time(21, 59, 59), Time(22, 0, 0),
     Time(23, 59, 59)}

SessionTimes == {Time(12, 0, 0), Time(18, 0, 0)}

Capitals == {100, 10000}
Impls == {"core", "app"}
OrderTicker == "PETR4.SA"
PositionSets == {{"VALE3.SA"}, {"VALE3.SA", "petr4.sa"}}

\* realized P&L (cents) of rows committed by other writers of the ledger
CommitPnls == {-30000, -5000}

RECURSIVE SeqsUpTo(_, _)
SeqsUpTo(S, n) ==
    IF n = 0 THEN {<<>>}
    ELSE LET shorter == SeqsUpTo(S, n - 1)
         IN  shorter \cup {Append(q, x) : q \in shorter, x \in S}

NoResult == [ok |-> FALSE, reason |-> <<>>]
NoCall == [impl |-> "core", ticker |-> OrderTicker, capital |-> 100]

EIdle ==
    /\ cfg = CfgDefault /\ broker_online = TRUE /\ positions = {}
    /\ now = Time(12, 0, 0) /\ today = 0 /\ ledger = <<>>

GIdle == gcall = NoCall /\ gpc = "idle" /\ gtrace = <<>> /\ gres = NoResult

Sessions == {"s1", "s2"}

IdleSession ==
    [pc |-> "idle", impl |-> "core", ticker |-> OrderTicker, capital |-> 100,
     safety |-> NoResult]

SIdle == sess = [s \in Sessions |-> IdleSession]

\* No engine call in progress; the generator untouched.
NoArgs == [engine |-> "none"]
NoLocals == [none |-> TRUE]
NoOutcome == [kind |-> "none"]
AIdle == ain = NoArgs /\ apc = "idle" /\ aloc = NoLocals /\ aout = NoOutcome
RIdle == np_random = <<0>> /\ runs = <<>>

(***************************************************************************)
(* GuardSpec: one call of SafetyGuard.validate, check by check             *)
(***************************************************************************)
GuardInit ==
    /\ cfg \in Configs
    /\ broker_online \in BOOLEAN
    /\ positions \in PositionSets
    /\ now \in GuardTimes
    /\ today = MaxDay
    /\ ledger \in SeqsUpTo({LedgerRow(d, OrderTicker, p) : d \in 0..MaxDay, p \in CommitPnls},
                           MaxRows)
    /\ gcall \in [impl : Impls, ticker : {OrderTicker}, capital : Capitals]
    /\ gpc = "ping" /\ gtrace = <<>> /\ gres = NoResult
    /\ VIdle /\ SIdle /\ AIdle /\ RIdle

GReturn(r) == gres' = r /\ gpc' = "returned"

GPing_NoShortCircuit ==
    /\ gpc = "ping"
    /\ gtrace' = Append(gtrace, "ping")
    /\ gpc' = "time" /\ gres' = gres
    /\ UNCHANGED <<gcall, evars, vvars, sess, avars, rvars>>

\* if not self.broker.ping(): return {"ok": False, "reason": "BROKER_OFFLINE"}
GPing ==
    /\ gpc = "ping"
    /\ gtrace' = Append(gtrace, "ping")
    /\ IF ~broker_online THEN GReturn(Result(FALSE, <<"BROKER_OFFLINE">>))
       ELSE gpc' = "time" /\ gres' = gres
    /\ UNCHANGED <<gcall, evars, vvars, sess, avars, rvars>>

\* ok_time, r_time = self._is_trading_time(); if not ok_time: return ...
GTime ==
    /\ gpc = "time"
    /\ gtrace' = Append(gtrace, "time")
    /\ LET r == _is_trading_time(cfg, now)
       IN  IF ~r.ok THEN GReturn(r)
           ELSE /\ gpc' = IF gcall.impl = "core" THEN "position" ELSE "kill"
                /\ gres' = gres
    /\ UNCHANGED <<gcall, evars, vvars, sess, avars, rvars>>

\* ok_pos, r_pos = self._position_check(order.ticker)   (core only)
GPosition ==
    /\ gpc = "position"
    /\ gtrace' = Append(gtrace, "position")
    /\ LET r == _position_check(positions, gcall.ticker)
       IN  IF ~r.ok THEN GReturn(r)
           ELSE gpc' = "kill" /\ gres' = gres
    /\ UNCHANGED <<gcall, evars, vvars, sess, avars, rvars>>

\* ok_kill, r_kill = self._kill_switch(capital); ...; return {"ok": True, ...}
GKill ==
    /\ gpc = "kill"
    /\ gtrace' = Append(gtrace, "kill")
    /\ LET r == _kill_switch(cfg, ledger, today, gcall.capital)
       IN  IF ~r.ok THEN GReturn(r)
           ELSE GReturn(Result(TRUE, R_OK))
    /\ UNCHANGED <<gcall, evars, vvars, sess, avars, rvars>>

GuardNext == GPing \/ GTime \/ GPosition \/ GKill

GuardSpec == GuardInit /\ [][GuardNext]_vars

(***************************************************************************)
(* VerdictSpec, VerdictPermSpec                                            *)
(***************************************************************************)
VerdictInit ==
    /\ vin \in VerdictInputs
    /\ vpc = "rules" /\ vdone = {} /\ status = VerdictStart.status
    /\ reasons = VerdictStart.reasons /\ vout = NoVerdict
    /\ EIdle /\ GIdle /\ SIdle /\ AIdle /\ RIdle

VerdictNext ==
    \/ VCostBlock \/ VRegimeStress \/ VRegimeVol \/ VVolLimit \/ VDdLimit
    \/ VRuinHigh \/ VOperabilityLow \/ VScoreLow \/ VReturn

VerdictSpec == VerdictInit /\ [][VerdictNext]_vars

VerdictPermInit ==
    /\ vin \in PermInputs
    /\ vpc = "rules" /\ vdone = {} /\ status = VerdictStart.status
    /\ reasons = VerdictStart.reasons /\ vout = NoVerdict
    /\ EIdle /\ GIdle /\ SIdle /\ AIdle /\ RIdle

VerdictPermNext == VAnyRule \/ VReturn

VerdictPermSpec == VerdictPermInit /\ [][VerdictPermNext]_vars

(***************************************************************************)
(* Spec: sessions of the LOG ORDER flow on one ledger                      *)
(*   src/interface/pages/deep_dive.py 157-203, src/app.py 1880-1906        *)
(* Each session is one Streamlit script run; validate reads the ledger in  *)
(* one SQLite transaction and log_order writes it in another.  Both        *)
(* applications build the guard on MockBroker (ping() is True, no open     *)
(* positions).                                                             *)
(***************************************************************************)
Init ==
    /\ cfg = CfgDefault /\ broker_online = TRUE /\ positions = {}
    /\ now \in SessionTimes /\ today = 0 /\ ledger = <<>>
    /\ SIdle /\ VIdle /\ GIdle /\ AIdle /\ RIdle

\* if st.button("LOG ORDER (SQLite)"): order = OrderIntent(...);
\* verdict_safety = safety_guard.validate(order, capital);
\* if not verdict_safety["ok"]: st.error(...); return
Submit(s) ==
    /\ sess[s].pc = "idle"
    /\ \E i \in Impls, c \in Capitals :
        LET r == validate(i, cfg, broker_online, now, positions, ledger, today,
                          OrderTicker, c)
        IN  sess' = [sess EXCEPT ![s] =
                        [pc |-> IF r.ok THEN "accepted" ELSE "blocked",
                         impl |-> i, ticker |-> OrderTicker, capital |-> c,
                         safety |-> r]]
    /\ UNCHANGED <<evars, vvars, gvars, avars, rvars>>

\* an order row that carries a realized loss
OrderRow_WithLoss(s) == LedgerRow(today, sess[s].ticker, -30000)
\* the row of the order flow: timestamp utcnow(), "realized_pnl": 0.0
OrderRow(s) == LedgerRow(today, sess[s].ticker, 0)

LogOrder_NoGate(s) ==
    /\ sess[s].pc \in {"accepted", "blocked"}
    /\ Len(ledger) < MaxLedger
    /\ ledger' = log_order(ledger, OrderRow(s))
    /\ sess' = [sess EXCEPT ![s].pc = "logged"]
    /\ UNCHANGED <<cfg, broker_online, positions, now, today, vvars, gvars, avars, rvars>>

\* ts_utc = datetime.utcnow()...; store.log_order({...}); st.success(...)
LogOrder(s) ==
    /\ sess[s].pc = "accepted"
    /\ Len(ledger) < MaxLedger
    /\ ledger' = log_order(ledger, OrderRow(s))
    /\ sess' = [sess EXCEPT ![s].pc = "logged"]
    /\ UNCHANGED <<cfg, broker_online, positions, now, today, vvars, gvars, avars, rvars>>

\* the script run ends; the session waits for the next click
EndRun(s) ==
    /\ sess[s].pc \in {"blocked", "logged"}
    /\ sess' = [sess EXCEPT ![s] = IdleSession]
    /\ UNCHANGED <<evars, vvars, gvars, avars, rvars>>

\* SQLiteStore.log_order called by another writer of the same database with
\* a row that carries realized P&L
LedgerCommit ==
    /\ Len(ledger) < MaxLedger
    /\ \E p \in CommitPnls : ledger' = log_order(ledger, LedgerRow(today, OrderTicker, p))
    /\ UNCHANGED <<cfg, broker_online, positions, now, today, vvars, gvars, sess, avars, rvars>>

\* datetime.now(tz) / datetime.utcnow() advance
ClockMoves ==
    /\ \E t \in SessionTimes \ {now} : now' = t
    /\ UNCHANGED <<cfg, broker_online, positions, today, ledger, vvars, gvars, sess, avars, rvars>>

NewUtcDay ==
    /\ today < MaxDay
    /\ today' = today + 1
    /\ UNCHANGED <<cfg, broker_online, positions, now, ledger, vvars, gvars, sess, avars, rvars>>

Next ==
    \/ \E s \in Sessions : Submit(s)
    \/ \E s \in Sessions : LogOrder(s)
    \/ \E s \in Sessions : EndRun(s)
    \/ LedgerCommit
    \/ ClockMoves
    \/ NewUtcDay

Spec == Init /\ [][Next]_vars

(***************************************************************************)
(* Properties                                                              *)
(***************************************************************************)
AllRules == 1..8
RuleOf(code) == CHOOSE i \in AllRules : ReasonCode(i) = code

\* C1: whenever cost.blocked is true, decide returns status BLOQUEIO with
\* command BLOCKED and COST_BLOCK among its reasons, whatever the regime,
\* score, ruin estimate and thresholds are.
C1_CostBlockedIsBlocked ==
    (vpc = "done" /\ vin.cost.blocked) =>
        /\ vout.status = "BLOQUEIO"
        /\ vout.command = "BLOCKED"
        /\ "COST_BLOCK" \in Range(vout.reasons)

C1_Witness ==
    /\ vpc = "done" /\ vin.cost.blocked
    /\ Trigger(3, vin) /\ Trigger(6, vin) /\ Trigger(8, vin)
    /\ vout.status = "BLOQUEIO"

\* C2: in the returned reasons, the code of each of the eight rules is
\* present if and only if that rule's condition holds, whatever status the
\* earlier rules produced.
C2_AllReasonsAccumulate ==
    vpc = "done" =>
        \A i \in AllRules : Trigger(i, vin) <=> ReasonCode(i) \in Range(vout.reasons)

\* C3: no rule step lowers the status: it only moves
\* AUTORIZADO -> DEFENSIVO -> BLOQUEIO.
C3_StatusOnlyEscalates == [][Rank(status') >= Rank(status)]_vars

C3_Witness ==
    /\ vpc = "rules" /\ vdone = 1..6 /\ status = "BLOQUEIO"
    /\ Trigger(2, vin) /\ Trigger(6, vin)

\* the input with condition i switched to true
Raise(in, i) ==
    CASE i = 1 -> [in EXCEPT !.cost.blocked = TRUE]
      [] i = 2 -> [in EXCEPT !.regime.label =
                     IF Contains(M_VOL, in.regime.label) THEN L_STRESS_VOL ELSE L_STRESS]
      [] i = 3 -> [in EXCEPT !.regime.label =
                     IF Contains(M_STRESS, in.regime.label) THEN L_STRESS_VOL ELSE L_VOL]
      [] i = 4 -> [in EXCEPT !.regime.vol = in.strict_vol + 5]
      [] i = 5 -> [in EXCEPT !.regime.dd = in.strict_dd_pct - 5]
      [] i = 6 -> [in EXCEPT !.ruin_pct = in.ruin_threshold + 7]
      [] i = 7 -> [in EXCEPT !.regime.score = OperabilityMin - 1]
      [] i = 8 -> [in EXCEPT !.score = ScoreMin * 10 - 1]

\* C4: whatever the order in which the eight rules were evaluated, the final
\* status is the one the code order gives, and switching any condition to
\* true never gives a lower status.
C4_OrderIndependentMonotone ==
    vpc = "done" =>
        /\ vout.status = decide(vin).status
        /\ \A i \in AllRules :
              Rank(decide(Raise(vin, i)).status) >= Rank(vout.status)

C4_Witness ==
    /\ vpc = "done" /\ vin.cost.blocked /\ Trigger(8, vin)
    /\ reasons[1] = "SCORE_LOW" /\ reasons[Len(reasons)] = "COST_BLOCK"
    /\ vout.status = "BLOQUEIO"

\* C5: decide always reaches its return; the status is one of the three, the
\* reasons are not empty; they are exactly <<"OK">> (status AUTORIZADO,
\* command READY) when no condition holds, and otherwise only codes of
\* conditions that hold, in rule order.
C5_AlwaysStatusAndReasons ==
    /\ vpc = "rules" => ENABLED VerdictNext
    /\ vpc = "done" =>
        /\ vout.status \in {"AUTORIZADO", "DEFENSIVO", "BLOQUEIO"}
        /\ Len(vout.reasons) > 0
        /\ IF \A i \in AllRules : ~Trigger(i, vin)
           THEN /\ vout.reasons = <<"OK">>
                /\ vout.status = "AUTORIZADO" /\ vout.command = "READY"
           ELSE /\ \A k \in 1..Len(vout.reasons) :
                     \E i \in AllRules : vout.reasons[k] = ReasonCode(i) /\ Trigger(i, vin)
                /\ \A k \in 1..(Len(vout.reasons) - 1) :
                     RuleOf(vout.reasons[k]) < RuleOf(vout.reasons[k + 1])

C5_Witness ==
    /\ vpc = "done" /\ vout.reasons = <<"OK">>
    /\ vout.status = "AUTORIZADO" /\ vout.command = "READY"

\* ---- SafetyGuard ----
\* The order of the checks: broker liveness, trading time, open position
\* (core/execution only), daily-loss kill switch.
Checks(impl) ==
    IF impl = "core" THEN <<"ping", "time", "position", "kill">>
    ELSE <<"ping", "time", "kill">>

\* what a check answers in the current environment
CheckResult(name) ==
    CASE name = "ping" ->
            IF broker_online THEN Result(TRUE, R_OK) ELSE Result(FALSE, <<"BROKER_OFFLINE">>)
      [] name = "time" -> _is_trading_time(cfg, now)
      [] name = "position" -> _position_check(positions, gcall.ticker)
      [] name = "kill" -> _kill_switch(cfg, ledger, today, gcall.capital)

\* index of the first failing check of the order, 0 when all pass
FirstFailing(order) ==
    IF \E k \in 1..Len(order) : ~CheckResult(order[k]).ok
    THEN CHOOSE k \in 1..Len(order) :
            /\ ~CheckResult(order[k]).ok
            /\ \A j \in 1..(k - 1) : CheckResult(order[j]).ok
    ELSE 0

\* C6: validate evaluates its checks in the order liveness, trading time,
\* open position, kill switch and stops at the first failing one: the checks
\* evaluated are the prefix of that order up to the first failure, the
\* returned reason is that check's reason, and ok = TRUE with reason OK is
\* returned only when every check passed.
C6_ChecksInOrderShortCircuit ==
    LET order == Checks(gcall.impl)
        f     == FirstFailing(order)
    IN  /\ gpc # "idle" => gtrace = SubSeq(order, 1, Len(gtrace))
        /\ gpc = "returned" =>
              IF f = 0
              THEN gres = Result(TRUE, R_OK) /\ gtrace = order
              ELSE /\ gres = CheckResult(order[f]) /\ ~gres.ok
                   /\ gtrace = SubSeq(order, 1, f)

C6_Witness ==
    /\ gpc = "returned" /\ ~broker_online
    /\ gtrace = <<"ping">> /\ gres.reason = <<"BROKER_OFFLINE">>
    /\ ~CheckResult("time").ok /\ ~CheckResult("kill").ok

RECURSIVE SumOver(_, _)
SumOver(f, I) ==
    IF I = {} THEN 0
    ELSE LET i == CHOOSE i \in I : TRUE IN f[i] + SumOver(f, I \ {i})

\* realized P&L logged for date d, in cents
DayPnl(rows, d) ==
    SumOver([i \in 1..Len(rows) |-> rows[i].realized_pnl],
            {i \in 1..Len(rows) : rows[i].date = d})

\* -(capital * max_daily_loss_pct / 100), in cents
LossLimit(capital) == -(capital * cfg.max_daily_loss_pct)

EarlierChecksPass ==
    /\ broker_online
    /\ _is_trading_time(cfg, now).ok
    /\ gcall.impl = "core" => _position_check(positions, gcall.ticker).ok

\* C7: when the earlier checks pass, validate denies with a reason that begins
\* KILL_SWITCH_DAILY_LOSS and carries pnl and limit whenever the realized P&L
\* of the current UTC date does not strictly exceed the limit (equality is
\* denied), and returns ok otherwise.
C7_KillSwitchAtOrBelowLimit ==
    (gpc = "returned" /\ EarlierChecksPass) =>
        LET pnl   == DayPnl(ledger, today)
            limit == LossLimit(gcall.capital)
        IN  IF pnl <= limit
            THEN /\ ~gres.ok
                 /\ Head(gres.reason) = "KILL_SWITCH_DAILY_LOSS"
                 /\ Contains(<<" pnl=">> \o Fmt2(pnl), gres.reason)
                 /\ Contains(<<" limit=">> \o Fmt2(limit), gres.reason)
            ELSE gres = Result(TRUE, R_OK)

\* capital 10000, 3 %, P&L -350.00: limit -300.00, denied
C7_Witness ==
    /\ gpc = "returned" /\ EarlierChecksPass
    /\ gcall.capital = 10000 /\ cfg.max_daily_loss_pct = 3
    /\ DayPnl(ledger, today) = -35000
    /\ gres.reason = <<"KILL_SWITCH_DAILY_LOSS", " pnl=", "-", "3", "5", "0", ".", "0", "0",
                       " limit=", "-", "3", "0", "0", ".", "0", "0">>

\* C8: no order is logged once the committed realized P&L of the current UTC
\* day is at or below the daily-loss limit of the submission.
C8_NoOrderLoggedPastLimit ==
    [][\A s \in Sessions :
          (sess[s].pc = "accepted" /\ sess'[s].pc = "logged") =>
              DayPnl(ledger, today) > LossLimit(sess[s].capital)]_vars

\* what one step of the flow may do to the sessions and the ledger
C9_GateStep ==
    /\ \A s \in Sessions :
          /\ sess'[s].pc = "accepted" => sess'[s].safety.ok
          /\ (sess[s].pc = "accepted" /\ sess'[s].pc # "accepted") =>
                /\ sess'[s].pc = "logged"
                /\ ledger' = Append(ledger, LedgerRow(today, sess[s].ticker, 0))
          /\ (sess[s].pc # "accepted" /\ sess'[s] # sess[s]) =>
                \/ sess[s].pc = "idle" /\ sess'[s].pc \in {"accepted", "blocked"}
                                       /\ ledger' = ledger
                \/ sess[s].pc \in {"blocked", "logged"} /\ sess'[s].pc = "idle"
                                       /\ ledger' = ledger
    /\ ledger' # ledger =>
          /\ Len(ledger') = Len(ledger) + 1
          /\ SubSeq(ledger', 1, Len(ledger)) = ledger
          /\ IF ledger'[Len(ledger')].realized_pnl = 0
             THEN \E s \in Sessions :
                     /\ sess[s].pc = "accepted" /\ sess[s].safety.ok
                     /\ sess'[s].pc = "logged"
                     /\ \A u \in Sessions \ {s} : sess'[u] = sess[u]
             ELSE sess' = sess

\* C9: the gate decides every ledger write of the order flow: an order row is
\* added only by a session whose validate returned ok, one row per accepted
\* submission, and a denied submission adds nothing.
C9_SafetyGatesLedger == [][C9_GateStep]_vars

C9_Witness ==
    \E s, u \in Sessions :
        /\ sess[s].pc = "logged" /\ sess[s].safety.ok
        /\ sess[u].pc = "blocked"
        /\ Len(ledger) = 1 /\ ledger[1].realized_pnl = 0

SecondOfDay(t) == 3600 * t.h + 60 * t.m + t.s

\* t lies in the window from start:00 to end:00
InWindow(t, start, end) ==
    /\ 3600 * _parse_hhmm(start)[1] + 60 * _parse_hhmm(start)[2] <= SecondOfDay(t)
    /\ SecondOfDay(t) <= 3600 * _parse_hhmm(end)[1] + 60 * _parse_hhmm(end)[2]

\* C10: with a reachable broker, validate returns ok only at a time inside
\* the trading window and outside both blackout windows; at any other time it
\* denies with AUCTION_PRE_OPEN, AUCTION_CLOSE or OUTSIDE_MARKET_HOURS.
C10_OkOnlyInTradingTime ==
    (gpc = "returned" /\ broker_online) =>
        LET tradable ==
                /\ InWindow(now, cfg.open_hhmm, cfg.close_hhmm)
                /\ ~InWindow(now, cfg.auction_pre_open_start, cfg.auction_pre_open_end)
                /\ ~InWindow(now, cfg.auction_close_start, cfg.auction_close_end)
        IN  /\ gres.ok => tradable
            /\ ~tradable =>
                  /\ ~gres.ok
                  /\ gres.reason \in {<<"AUCTION_PRE_OPEN">>, <<"AUCTION_CLOSE">>,
                                      <<"OUTSIDE_MARKET_HOURS">>}

C10_Witness ==
    /\ gpc = "returned" /\ gres.ok /\ cfg = CfgDefault /\ now = Time(10, 0, 1)

(***************************************************************************)
(* CostEngine.compute  (src/core/logic/costs.py; compute_cost in app.py)   *)
(* The three components and the limit are the integers of the number       *)
(* inputs and of the profile; break_even_pct is kept in units of 1/10000.  *)
(***************************************************************************)
compute_BlockAboveLimit(spread_bps, slippage_bps, fee_bps, max_block_bps) ==
    LET total == spread_bps + slippage_bps + fee_bps
    IN  [total_bps |-> total, blocked |-> total > max_block_bps,
         max_block |-> max_block_bps, break_even_pct |-> total]

\* total = int(spread_bps + slippage_bps + fee_bps)
\* blocked = total >= int(max_block_bps)
compute(spread_bps, slippage_bps, fee_bps, max_block_bps) ==
    LET total == spread_bps + slippage_bps + fee_bps
    IN  [total_bps |-> total, blocked |-> total >= max_block_bps,
         max_block |-> max_block_bps, break_even_pct |-> total]

\* st.number_input(.., 0, 200, ..) for the components; max_cost_block_bps of
\* the profiles Defensive and Trend, and the limit 40 of scenario C.
CostInputs ==
    [engine : {"cost"}, spread_bps : {0, 5, 20}, slippage_bps : {0, 5, 20},
     fee_bps : {0, 2, 10}, max_block_bps : {22, 35, 40}]

CostInit ==
    /\ ain \in CostInputs
    /\ apc = "compute" /\ aloc = NoLocals /\ aout = NoOutcome
    /\ VIdle /\ EIdle /\ GIdle /\ SIdle /\ RIdle

\* cost = CostEngine.compute(spread, slippage, fee, max_cost_block)
CostCompute ==
    /\ apc = "compute" /\ ain.engine = "cost"
    /\ aout' = [kind |-> "return",
                value |-> compute(ain.spread_bps, ain.slippage_bps, ain.fee_bps,
                                  ain.max_block_bps)]
    /\ apc' = "done"
    /\ UNCHANGED <<ain, aloc, vvars, evars, gvars, sess, rvars>>

CostNext == CostCompute

CostSpec == CostInit /\ [][CostNext]_vars

\* C11: compute returns total_bps = spread_bps + slippage_bps + fee_bps and
\* blocked = TRUE exactly when total_bps >= max_block_bps; in particular a
\* total equal to the limit is blocked.
C11_CostTotalAndInclusiveBlock ==
    (apc = "done" /\ ain.engine = "cost") =>
        LET c == aout.value
        IN  /\ aout.kind = "return"
            /\ c.total_bps = ain.spread_bps + ain.slippage_bps + ain.fee_bps
            /\ c.blocked \in BOOLEAN
            /\ (c.total_bps < ain.max_block_bps) => ~c.blocked
            /\ (c.total_bps = ain.max_block_bps) => c.blocked
            /\ (c.total_bps > ain.max_block_bps) => c.blocked

\* the boundary: 20 + 20 + 0 = 40 = max_block_bps, blocked
C11_Witness ==
    /\ apc = "done" /\ ain.engine = "cost"
    /\ aout.value.total_bps = ain.max_block_bps /\ aout.value.blocked

(***************************************************************************)
(* Indicator rows and frames                                               *)
(* A frame d is the sequence of rows IndicatorEngine.calculate returned.   *)
(* Grids: close_final, SMA20, SMA50 in cents; ZScore in hundredths; VolAnn *)
(* in tenths; Drawdown in hundredths; VaR95, CVaR95 in thousandths.        *)
(***************************************************************************)
Row(c, s20, s50, z, v, dd) ==
    [close_final |-> c, SMA20 |-> s20, SMA50 |-> s50, ZScore |-> z,
     VolAnn |-> v, Drawdown |-> dd, VaR95 |-> -20, CVaR95 |-> -30]

\* d.iloc[-k]
ILoc(d, k) == d[Len(d) - k + 1]

\* A frame of n rows ending in last, whose earlier rows carry SMA20 = s20_old.
Frame(n, s20_old, last) ==
    [i \in 1..n |-> IF i = n THEN last ELSE [last EXCEPT !.SMA20 = s20_old]]

Max(a, b) == IF a >= b THEN a ELSE b
Min(a, b) == IF a <= b THEN a ELSE b
\* def clamp(x, lo, hi): return max(lo, min(hi, x))
clamp(x, lo, hi) == Max(lo, Min(hi, x))

(***************************************************************************)
(* RegimeEngine.analyze  (src/core/logic/regimes.py; regime_engine in      *)
(* app.py, which names the score "operability")                            *)
(***************************************************************************)
L_DOWNTREND == <<"D","O","W","N","T","R","E","N","D">>
S_EXT  == <<" ","E","X","T">>
S_DISC == <<" ","D","I","S","C">>

\* slope = (SMA20[-1] - SMA20[-6]) / (abs(SMA20[-6]) + 1e-9), as the fraction
\* num/den of cents; den counts abs(SMA20[-6]) only, the 1e-9 keeps the
\* division defined when it is 0 and never changes the sign.
Slope(d) ==
    [num |-> ILoc(d, 1).SMA20 - ILoc(d, 6).SMA20, den |-> Abs(ILoc(d, 6).SMA20)]

\* up = sma20 > sma50 and close > sma20 and slope > 0
Up(last, slope) ==
    last.SMA20 > last.SMA50 /\ last.close_final > last.SMA20 /\ slope.num > 0
\* dn = sma20 < sma50 and close < sma20 and slope < 0
Dn(last, slope) ==
    last.SMA20 < last.SMA50 /\ last.close_final < last.SMA20 /\ slope.num < 0
\* vol_hostil = vol > 45.0
VolHostil(last) == last.VolAnn > 450

Stress_BelowQuarter(last) == last.Drawdown < -25
\* stress = dd < -0.20
Stress(last) == last.Drawdown < -20

BaseLabel_VolFirst(last, slope) ==
    IF VolHostil(last) THEN L_VOL
    ELSE IF Stress(last) THEN L_STRESS
    ELSE IF Up(last, slope) THEN L_UPTREND
    ELSE IF Dn(last, slope) THEN L_DOWNTREND
    ELSE L_TRANSITION

\* label = "TRANSITION"; if stress: .. elif vol_hostil: .. elif up: .. elif dn: ..
BaseLabel(last, slope) ==
    IF Stress(last) THEN L_STRESS
    ELSE IF VolHostil(last) THEN L_VOL
    ELSE IF Up(last, slope) THEN L_UPTREND
    ELSE IF Dn(last, slope) THEN L_DOWNTREND
    ELSE L_TRANSITION

\* if abs(z) >= 2 and not stress: label += " EXT" if z > 0 else " DISC"
Suffix(label, last) ==
    IF Abs(last.ZScore) >= 200 /\ ~Stress(last)
    THEN label \o (IF last.ZScore > 0 THEN S_EXT ELSE S_DISC)
    ELSE label

\* score = 75
ScoreStart == 75
\* score -= int(abs(z) * 7)
ScoreZ(score, last) == score - ((Abs(last.ZScore) * 7) \div 100)
ScoreVol_NoFloor(score, last) == score - ((last.VolAnn - 250) \div 10)
\* score -= int(max(0, vol - 25))
ScoreVol(score, last) == score - (Max(0, last.VolAnn - 250) \div 10)
\* score -= int(abs(dd) * 120)
ScoreDd(score, last) == score - ((Abs(last.Drawdown) * 120) \div 100)
\* the cost term added instead of subtracted
ScoreCost_Added(score, cost_bps) == score + ((cost_bps * 8) \div 10)
\* score -= int(cost_bps * 0.8)
ScoreCost(score, cost_bps) == score - ((cost_bps * 8) \div 10)
\* score = int(clamp(score, 0, 100))
ScoreClamp(score) == clamp(score, 0, 100)

RegimeDict(label, last, slope, score) ==
    [label |-> label, z |-> last.ZScore, vol |-> last.VolAnn,
     dd |-> last.Drawdown, slope |-> slope, score |-> score]

Raised(exc, at) == [kind |-> "raise", exc |-> exc, at |-> at]
Returned(v) == [kind |-> "return", value |-> v]

\* analyze as a function of its arguments: d.iloc[-1] needs one row,
\* d["SMA20"].iloc[-6] needs six.
analyze(d, cost_bps) ==
    IF Len(d) < 1 THEN Raised("IndexError", "regimes.py:11")
    ELSE IF Len(d) < 6 THEN Raised("IndexError", "regimes.py:18")
    ELSE LET last == ILoc(d, 1)
             slope == Slope(d)
         IN  Returned(RegimeDict(
                 Suffix(BaseLabel(last, slope), last), last, slope,
                 ScoreClamp(ScoreCost(ScoreDd(ScoreVol(ScoreZ(ScoreStart, last),
                                                       last), last), cost_bps))))

\* ---- inputs ----
\* Rows around every threshold of analyze: SMA20 above, at and below SMA50,
\* close on either side of SMA20, SMA20 rising, flat and falling over five
\* bars, |z| around 2, VolAnn around 25 and 45, Drawdown around -0.20.
RegimeRows ==
    {Row(c, 1000, s50, z, v, dd) :
        c \in {950, 1050}, s50 \in {900, 1000, 1100},
        z \in {-250, -200, -10, 0, 10, 199, 250},
        v \in {200, 255, 450, 451, 900}, dd \in {-25, -21, -20, -7, 0}}

RegimeCosts == {0, 12, 50}

\* Frames of six rows, and frames too short for the slope.
RegimeFrames ==
    {Frame(6, old, last) : old \in {990, 1000, 1010}, last \in RegimeRows}
    \cup {Frame(n, 990, Row(1050, 1000, 900, 0, 200, 0)) : n \in 0..5}

RegimeInit ==
    /\ ain \in [engine : {"regime"}, d : RegimeFrames, cost_bps : RegimeCosts]
    /\ apc = "read" /\ aloc = NoLocals /\ aout = NoOutcome
    /\ VIdle /\ EIdle /\ GIdle /\ SIdle /\ RIdle

RegimeStep(pc, next, loc) ==
    /\ ain.engine = "regime" /\ apc = pc
    /\ apc' = next /\ aloc' = loc
    /\ UNCHANGED <<ain, aout, vvars, evars, gvars, sess, rvars>>

\* lines 11-18: last = d.iloc[-1]; ...; slope = ... d["SMA20"].iloc[-6] ...
RegimeRead ==
    /\ Len(ain.d) >= 6
    /\ RegimeStep("read", "label",
                  [last |-> ILoc(ain.d, 1), slope |-> Slope(ain.d),
                   label |-> <<>>, score |-> 0])

RegimeReadFails ==
    /\ ain.engine = "regime" /\ apc = "read" /\ Len(ain.d) < 6
    /\ aout' = analyze(ain.d, ain.cost_bps)
    /\ apc' = "done"
    /\ UNCHANGED <<ain, aloc, vvars, evars, gvars, sess, rvars>>

\* lines 20-34
RegimeLabel ==
    /\ apc = "label"
    /\ RegimeStep("label", "suffix",
               [aloc EXCEPT !.label = BaseLabel(aloc.last, aloc.slope)])
\* lines 36-37
RegimeSuffix ==
    /\ apc = "suffix"
    /\ RegimeStep("suffix", "score_z",
               [aloc EXCEPT !.label = Suffix(aloc.label, aloc.last),
                            !.score = ScoreStart])
\* lines 39-43
RegimeScoreZ ==
    /\ apc = "score_z"
    /\ RegimeStep("score_z", "score_vol", [aloc EXCEPT !.score = ScoreZ(@, aloc.last)])
RegimeScoreVol ==
    /\ apc = "score_vol"
    /\ RegimeStep("score_vol", "score_dd", [aloc EXCEPT !.score = ScoreVol(@, aloc.last)])
RegimeScoreDd ==
    /\ apc = "score_dd"
    /\ RegimeStep("score_dd", "score_cost", [aloc EXCEPT !.score = ScoreDd(@, aloc.last)])
RegimeScoreCost ==
    /\ apc = "score_cost"
    /\ RegimeStep("score_cost", "clamp", [aloc EXCEPT !.score = ScoreCost(@, ain.cost_bps)])

\* lines 44-46
RegimeReturn ==
    /\ ain.engine = "regime" /\ apc = "clamp"
    /\ aout' = Returned(RegimeDict(aloc.label, aloc.last, aloc.slope,
                                   ScoreClamp(aloc.score)))
    /\ apc' = "done"
    /\ UNCHANGED <<ain, aloc, vvars, evars, gvars, sess, rvars>>

RegimeNext ==
    \/ RegimeRead \/ RegimeReadFails \/ RegimeLabel \/ RegimeSuffix
    \/ RegimeScoreZ \/ RegimeScoreVol \/ RegimeScoreDd \/ RegimeScoreCost
    \/ RegimeReturn

RegimeSpec == RegimeInit /\ [][RegimeNext]_vars

\* C12: a last row with Drawdown < -0.20 is labelled STRESS, and decide on
\* that regime, whatever the other arguments, returns a status of at least
\* DEFENSIVO with REGIME_STRESS among the reasons.
C12_DeepDrawdownIsStress ==
    (ain.engine = "regime" /\ apc = "done" /\ Len(ain.d) >= 6
        /\ ILoc(ain.d, 1).Drawdown < -20) =>
        /\ aout.kind = "return"
        /\ aout.value.label = L_STRESS
        /\ \A b \in BOOLEAN, ru \in {0, 12}, sc \in {399, 1000},
              sv \in {450, 600}, sd \in {-20, -35}, rt \in {5, 20} :
              LET reg == aout.value
                  v == decide(VerdictInput(b, reg.label, reg.vol, reg.dd,
                                           reg.score, ru, sc, sv, sd, rt))
              IN  /\ Rank(v.status) >= Rank("DEFENSIVO")
                  /\ "REGIME_STRESS" \in Range(v.reasons)

\* scenario B: Drawdown = -0.25, everything else neutral
C12_Witness ==
    /\ ain.engine = "regime" /\ apc = "done" /\ aout.kind = "return"
    /\ ILoc(ain.d, 1) = Row(1050, 1000, 1000, 0, 200, -25)
    /\ ain.cost_bps = 0
    /\ aout.value.label = L_STRESS
    /\ decide(VerdictInput(FALSE, aout.value.label, aout.value.vol,
                           aout.value.dd, aout.value.score, 0, 1000, 600, -35,
                           20)).status = "DEFENSIVO"

\* the label without the suffix analyze may have appended
HasBase(base, label) == label \in {base, base \o S_EXT, base \o S_DISC}

\* C13: the base label is the first match in the priority STRESS, VOL,
\* UPTREND, DOWNTREND, TRANSITION: each label is produced exactly when its
\* condition holds and no higher one does, TRANSITION when none holds.
C13_LabelByPriority ==
    (ain.engine = "regime" /\ apc = "done" /\ Len(ain.d) >= 6) =>
        LET last == ILoc(ain.d, 1)
            rise == last.SMA20 - ILoc(ain.d, 6).SMA20
            stress == last.Drawdown < -20
            vol == last.VolAnn > 450
            up == last.SMA20 > last.SMA50 /\ last.close_final > last.SMA20 /\ rise > 0
            dn == last.SMA20 < last.SMA50 /\ last.close_final < last.SMA20 /\ rise < 0
            label == aout.value.label
        IN  /\ aout.kind = "return"
            /\ HasBase(L_STRESS, label) <=> stress
            /\ HasBase(L_VOL, label) <=> (~stress /\ vol)
            /\ HasBase(L_UPTREND, label) <=> (~stress /\ ~vol /\ up)
            /\ HasBase(L_DOWNTREND, label) <=> (~stress /\ ~vol /\ ~up /\ dn)
            /\ HasBase(L_TRANSITION, label) <=> (~stress /\ ~vol /\ ~up /\ ~dn)

\* a stressed, volatile, uptrending row is STRESS; the same row without the
\* drawdown would be VOL
C13_Witness ==
    /\ ain.engine = "regime" /\ apc = "done" /\ aout.kind = "return"
    /\ ILoc(ain.d, 1) = Row(1050, 1000, 900, 0, 451, -21)
    /\ ILoc(ain.d, 6).SMA20 = 990
    /\ aout.value.label = L_STRESS

\* The integer part of n/d for n >= 0, d > 0 (no term of the score passes 200).
IntPart(n, d) == CHOOSE k \in 0..200 : k * d <= n /\ n < (k + 1) * d
\* int(n/d): truncation towards zero
TruncToZero(n, d) == IF n >= 0 THEN IntPart(n, d) ELSE -IntPart(-n, d)

\* C14 as stated: the running value is truncated to an integer after each
\* of the four subtractions (of the untruncated terms), then clamped to
\* [0,100]; the result is an integer in [0,100].
C14_OperabilityRunningTruncation ==
    (ain.engine = "regime" /\ apc = "done" /\ Len(ain.d) >= 6) =>
        LET last == ILoc(ain.d, 1)
            t1 == TruncToZero(75 * 100 - 7 * Abs(last.ZScore), 100)
            t2 == TruncToZero(t1 * 10 - Max(0, last.VolAnn - 250), 10)
            t3 == TruncToZero(t2 * 100 - 120 * Abs(last.Drawdown), 100)
            t4 == TruncToZero(t3 * 10 - 8 * ain.cost_bps, 10)
        IN  /\ aout.kind = "return"
            /\ aout.value.score \in 0..100
            /\ aout.value.score = Max(0, Min(100, t4))

\* C14 (amended): each of the four terms is truncated to an integer before
\* it is subtracted from 75, and the difference is clamped to [0,100]; the
\* result is an integer in [0,100].
C14_OperabilityTermTruncation ==
    (ain.engine = "regime" /\ apc = "done" /\ Len(ain.d) >= 6) =>
        LET last == ILoc(ain.d, 1)
            pz == IntPart(7 * Abs(last.ZScore), 100)
            pv == IntPart(Max(0, last.VolAnn - 250), 10)
            pd == IntPart(120 * Abs(last.Drawdown), 100)
            pc == IntPart(8 * ain.cost_bps, 10)
        IN  /\ aout.kind = "return"
            /\ aout.value.score \in 0..100
            /\ aout.value.score = Max(0, Min(100, 75 - pz - pv - pd - pc))

\* z = 0.10, VolAnn = 25.5, Drawdown = -0.07, cost 12 bps: the terms 0.7,
\* 0.5, 8.4 and 9.6 count 0, 0, 8 and 9
C14_Witness ==
    /\ ain.engine = "regime" /\ apc = "done" /\ aout.kind = "return"
    /\ ILoc(ain.d, 1).ZScore = 10 /\ ILoc(ain.d, 1).VolAnn = 255
    /\ ILoc(ain.d, 1).Drawdown = -7 /\ ain.cost_bps = 12
    /\ aout.value.score = 58

(***************************************************************************)
(* ScoreEngine  (src/core/logic/scores.py; trend_score .. multi_score in   *)
(* app.py)                                                                 *)
(* Sub-scores are kept in units of 1/10000 of a point, weights in          *)
(* hundredths; the rounded scores of the returned dict are in tenths.      *)
(***************************************************************************)
\* n/d rounded to the nearest integer, ties to even (Python's round), d # 0
RoundDiv(n, d) ==
    LET nn == IF d < 0 THEN -n ELSE n
        dd == Abs(d)
        q  == nn \div dd
        r  == nn - q * dd
    IN  IF 2 * r < dd THEN q
        ELSE IF 2 * r > dd THEN q + 1
        ELSE IF q % 2 = 0 THEN q ELSE q + 1

\* clamp(slope * 450, -3, 3) in hundredths, slope = num / (den + 1e-9); inside
\* the clamp the quotient is cut to whole hundredths.
SlopeTerm(slope) ==
    IF 450 * Abs(slope.num) >= 3 * slope.den
    THEN (IF slope.num > 0 THEN 300 ELSE IF slope.num < 0 THEN -300 ELSE 0)
    ELSE IF slope.num >= 0 THEN (45000 * slope.num) \div slope.den
    ELSE -((45000 * (-slope.num)) \div slope.den)

\* the base term alone, without the slope score
trend_score_BaseOnly(last, d) ==
    LET base == 50 + (IF last.SMA20 > last.SMA50 /\ last.close_final > last.SMA20
                      THEN 25 ELSE 0)
                   - (IF last.SMA20 < last.SMA50 /\ last.close_final < last.SMA20
                      THEN 20 ELSE 0)
    IN  clamp(base * 10000, 0, 1000000)

\* lines 10-23
trend_score(last, d) ==
    LET slope == Slope(d)
        base == 50 + (IF last.SMA20 > last.SMA50 /\ last.close_final > last.SMA20
                      THEN 25 ELSE 0)
                   - (IF last.SMA20 < last.SMA50 /\ last.close_final < last.SMA20
                      THEN 20 ELSE 0)
        slope_score == clamp(5000 + SlopeTerm(slope) * 15, 0, 10000)
    IN  clamp(base * 5500 + slope_score * 45, 0, 1000000)

\* lines 26-28: clamp(50 + (-z * 18) - max(0, z - 1.0) * 12, 0, 100)
meanrev_score(last) ==
    clamp(5000 - last.ZScore * 18 - Max(0, last.ZScore - 100) * 12, 0, 10000) * 100

\* lines 31-41
risk_score(last) ==
    LET v_pen == clamp((last.VolAnn - 200) * 19, 0, 8000)
        dd_pen == clamp(Abs(last.Drawdown) * 180, 0, 8000)
        tail_pen == clamp(Abs(last.CVaR95) * 65, 0, 8000)
                    + clamp(Abs(last.VaR95) * 50, 0, 6000)
    IN  clamp(1000000 - (v_pen * 45 + dd_pen * 35 + tail_pen * 20), 0, 1000000)

\* wsum = float(weights["trend"] + weights["meanrev"] + weights["risk"])
WSum(weights) == weights.trend + weights.meanrev + weights.risk

\* p_cost * 0.55 + p_reg * 0.45, with p_cost = clamp(cost_bps * 2.8, 0, 80)
\* and p_reg = 45 (STRESS), 25 (VOL) or 0
Penalty(cost_bps, regime_label) ==
    LET p_cost == clamp(cost_bps * 28, 0, 800)
        p_reg == IF Contains(M_STRESS, regime_label) THEN 45
                 ELSE IF Contains(M_VOL, regime_label) THEN 25 ELSE 0
    IN  p_cost * 550 + p_reg * 4500

\* lines 55-62, for wsum # 0: raw = (ts*wt + mr*wm + rk*wr) / wsum
ScoreDict(ts, mr, rk, cost_bps, regime_label, weights) ==
    LET wsum == WSum(weights)
        num == ts * weights.trend + mr * weights.meanrev + rk * weights.risk
               - Penalty(cost_bps, regime_label) * wsum
        \* clamp(raw - penalty, 0, 100), as the fraction fnum / fden, fden > 0
        fden == Abs(wsum)
        fnum == clamp(IF wsum < 0 THEN -num ELSE num, 0, 1000000 * fden)
    IN  [final_score |-> RoundDiv(fnum, fden * 1000),
         trend_score |-> RoundDiv(ts, 1000),
         meanrev_score |-> RoundDiv(mr, 1000),
         risk_score |-> RoundDiv(rk, 1000)]

\* multi as a function of its arguments: trend_score reads
\* d["SMA20"].iloc[-6]; weights[..] / wsum divides Python floats.
multi(d, last, cost_bps, regime_label, weights) ==
    IF Len(d) < 6 THEN Raised("IndexError", "scores.py:14")
    ELSE IF WSum(weights) = 0 THEN Raised("ZeroDivisionError", "scores.py:50")
    ELSE Returned(ScoreDict(trend_score(last, d), meanrev_score(last),
                            risk_score(last), cost_bps, regime_label, weights))

\* ---- inputs ----
ScoreRows ==
    {Row(c, 1000, s50, z, v, dd) :
        c \in {950, 1050}, s50 \in {900, 1000, 1100}, z \in {-250, 0, 150},
        v \in {200, 451}, dd \in {-25, 0}}

ScoreFrames == {Frame(6, old, last) : old \in {990, 998, 1010}, last \in ScoreRows}

\* deep_dive.py passes {"trend": 0.50, "meanrev": 0.15, "risk": 0.35}; the
\* other configurations switch a weight off or give it the opposite sign.
WeightSets == [trend : {-50, 0, 50}, meanrev : {-15, 0, 15}, risk : {-35, 0, 35}]

\* mf = ScoreEngine.multi(d, last, cost["total_bps"], reg["label"], weights)
ScoreInit ==
    /\ \E d \in ScoreFrames, c \in RegimeCosts, w \in WeightSets :
          ain = [engine |-> "score", d |-> d, last |-> ILoc(d, 1), cost_bps |-> c,
                 regime_label |-> analyze(d, c).value.label, weights |-> w]
    /\ apc = "subscores" /\ aloc = NoLocals /\ aout = NoOutcome
    /\ VIdle /\ EIdle /\ GIdle /\ SIdle /\ RIdle

\* lines 45-47: ts, mr, rk
ScoreSubscores ==
    /\ ain.engine = "score" /\ apc = "subscores"
    /\ aloc' = [ts |-> trend_score(ain.last, ain.d), mr |-> meanrev_score(ain.last),
                rk |-> risk_score(ain.last)]
    /\ apc' = "raw"
    /\ UNCHANGED <<ain, aout, vvars, evars, gvars, sess, rvars>>

\* lines 49-62 with wsum # 0
ScoreReturn ==
    /\ ain.engine = "score" /\ apc = "raw" /\ WSum(ain.weights) # 0
    /\ aout' = Returned(ScoreDict(aloc.ts, aloc.mr, aloc.rk, ain.cost_bps,
                                  ain.regime_label, ain.weights))
    /\ apc' = "done"
    /\ UNCHANGED <<ain, aloc, vvars, evars, gvars, sess, rvars>>

\* line 50 with wsum = 0.0: float division by zero
ScoreDivisionFails ==
    /\ ain.engine = "score" /\ apc = "raw" /\ WSum(ain.weights) = 0
    /\ aout' = multi(ain.d, ain.last, ain.cost_bps, ain.regime_label, ain.weights)
    /\ apc' = "done"
    /\ UNCHANGED <<ain, aloc, vvars, evars, gvars, sess, rvars>>

ScoreNext == ScoreSubscores \/ ScoreReturn \/ ScoreDivisionFails

ScoreSpec == ScoreInit /\ [][ScoreNext]_vars

\* C15: multi rejects weights whose sum trend + meanrev + risk is not
\* greater than 0 with a ConfigError; it neither returns a score nor fails
\* with another error.
C15_NonPositiveWeightSumIsConfigError ==
    (ain.engine = "score" /\ apc = "done" /\ WSum(ain.weights) <= 0) =>
        (aout.kind = "raise" /\ aout.exc = "ConfigError")

(***************************************************************************)
(* RiskEngine.monte_carlo_ruin  (src/core/logic/risk.py; monte_carlo_ruin  *)
(* in app.py)                                                              *)
(* Grids: win_rate in hundredths, payoff in tenths, risk_per_trade in      *)
(* thousandths, so a trade's pnl and the equity are in units of 1/10000.   *)
(* np.random is the module-level generator: nothing in the repository      *)
(* seeds it, every call of np.random.choice consumes samples from it.  It  *)
(* is modelled as a cycle of uniform samples (hundredths of [0,1)), of     *)
(* which a call reads sims*trades and leaves the cycle advanced.           *)
(***************************************************************************)
CycleLen == 5     \* samples in the generator's cycle
MaxRuns  == 2     \* calls of monte_carlo_ruin in one behaviour

\* the next k samples of the generator, and the generator after them
Samples(g, k) == [i \in 1..k |-> g[((i - 1) % Len(g)) + 1]]
Advance(g, k) == [i \in 1..Len(g) |-> g[((i - 1 + k) % Len(g)) + 1]]

\* lines 11-13
ClampArgs(a) ==
    [win_rate |-> clamp(a.win_rate, 1, 99),
     payoff |-> clamp(a.payoff, 5, 100),
     risk_per_trade |-> clamp(a.risk_per_trade, 1, 200)]

\* np.random.choice([1, 0], size=(sims, trades), p=[win_rate, 1-win_rate]):
\* sample u gives 1 when u < win_rate; row i takes samples (i-1)*trades+1 ..
Choice(g, sims, trades, win_rate) ==
    LET u == Samples(g, sims * trades)
    IN  [i \in 1..sims |->
            [j \in 1..trades |->
                IF u[(i - 1) * trades + j] < win_rate THEN 1 ELSE 0]]

\* pnl = np.where(outcomes == 1, payoff * risk_per_trade, -risk_per_trade)
Pnl(o, c) == IF o = 1 THEN c.payoff * c.risk_per_trade ELSE -(c.risk_per_trade * 10)

\* equity = pnl.cumsum(axis=1), one row
RECURSIVE CumSum(_, _)
CumSum(row, c) ==
    IF row = <<>> THEN <<>>
    ELSE LET n == Len(row)
             before == CumSum(SubSeq(row, 1, n - 1), c)
         IN  Append(before, (IF n = 1 THEN 0 ELSE before[n - 1]) + Pnl(row[n], c))

RuinLevel == -5000      \* (equity < -0.50)

Ruined_AtLastTrade(eq) == eq # <<>> /\ eq[Len(eq)] < RuinLevel
\* ruin = (equity < -0.50).any(axis=1), one row
Ruined(eq) == \E j \in 1..Len(eq) : eq[j] < RuinLevel

NaN == [nan |-> TRUE, num |-> 0, den |-> 1]
Number(n, d) == [nan |-> FALSE, num |-> n, den |-> d]

\* float(ruin.mean() * 100): the mean of an empty array is nan
MeanPct(ruin) ==
    IF Len(ruin) = 0 THEN NaN
    ELSE Number(100 * Cardinality({i \in 1..Len(ruin) : ruin[i]}), Len(ruin))

\* monte_carlo_ruin as a function of its arguments and of the generator
monte_carlo_ruin(a, g) ==
    LET c == ClampArgs(a)
    IN  IF a.sims < 0 \/ a.trades < 0
        THEN Raised("ValueError", "risk.py:15")
        ELSE LET outcomes == Choice(g, a.sims, a.trades, c.win_rate)
                 equity == [i \in 1..a.sims |-> CumSum(outcomes[i], c)]
             IN  Returned(MeanPct([i \in 1..a.sims |-> Ruined(equity[i])]))

\* ---- inputs ----
\* Arguments inside and on both sides of the clamping ranges; sims and trades
\* include the empty and the negative size.
RuinInputs ==
    [engine : {"ruin"}, win_rate : {-10, 50, 150}, payoff : {0, 20, 200},
     risk_per_trade : {0, 125, 500}, sims : {-1, 0, 1, 2}, trades : {0, 3, 4}]

\* a sample 0 is below every win_rate, a sample 99 below none
RandomCycles ==
    [1..CycleLen -> {0, 99}] \cup {<<50, 50, 50, 50, 50>>, <<50, 99, 50, 99, 0>>}

RuinInit ==
    /\ ain \in RuinInputs
    /\ apc = "clamp" /\ aloc = NoLocals /\ aout = NoOutcome
    /\ np_random \in RandomCycles /\ runs = <<>>
    /\ VIdle /\ EIdle /\ GIdle /\ SIdle

RunRecord(a, out) == [args |-> a, out |-> out]

\* lines 11-13
RuinClamp ==
    /\ ain.engine = "ruin" /\ apc = "clamp"
    /\ aloc' = [c |-> ClampArgs(ain)]
    /\ apc' = "choice"
    /\ UNCHANGED <<ain, aout, rvars, vvars, evars, gvars, sess>>

\* line 15
RuinChoice ==
    /\ ain.engine = "ruin" /\ apc = "choice"
    /\ ain.sims >= 0 /\ ain.trades >= 0
    /\ aloc' = [c |-> aloc.c,
                outcomes |-> Choice(np_random, ain.sims, ain.trades, aloc.c.win_rate)]
    /\ np_random' = Advance(np_random, ain.sims * ain.trades)
    /\ apc' = "equity"
    /\ UNCHANGED <<ain, aout, runs, vvars, evars, gvars, sess>>

\* line 15 with a negative size: "negative dimensions are not allowed"
RuinChoiceFails ==
    /\ ain.engine = "ruin" /\ apc = "choice"
    /\ (ain.sims < 0 \/ ain.trades < 0)
    /\ aout' = Raised("ValueError", "risk.py:15")
    /\ runs' = Append(runs, RunRecord(ain, aout'))
    /\ apc' = "done"
    /\ UNCHANGED <<ain, aloc, np_random, vvars, evars, gvars, sess>>

\* lines 16-17
RuinEquity ==
    /\ ain.engine = "ruin" /\ apc = "equity"
    /\ aloc' = [c |-> aloc.c, outcomes |-> aloc.outcomes,
                equity |-> [i \in 1..ain.sims |-> CumSum(aloc.outcomes[i], aloc.c)]]
    /\ apc' = "any"
    /\ UNCHANGED <<ain, aout, rvars, vvars, evars, gvars, sess>>

\* line 18
RuinAny ==
    /\ ain.engine = "ruin" /\ apc = "any"
    /\ aloc' = [c |-> aloc.c, outcomes |-> aloc.outcomes, equity |-> aloc.equity,
                ruin |-> [i \in 1..ain.sims |-> Ruined(aloc.equity[i])]]
    /\ apc' = "mean"
    /\ UNCHANGED <<ain, aout, rvars, vvars, evars, gvars, sess>>

\* line 19
RuinReturn ==
    /\ ain.engine = "ruin" /\ apc = "mean"
    /\ aout' = Returned(MeanPct(aloc.ruin))
    /\ runs' = Append(runs, RunRecord(ain, aout'))
    /\ apc' = "done"
    /\ UNCHANGED <<ain, aloc, np_random, vvars, evars, gvars, sess>>

\* the caller runs the simulation again with the same arguments (every
\* ANALYZE click calls it with the current slider values)
RuinAgain ==
    /\ ain.engine = "ruin" /\ apc = "done" /\ Len(runs) < MaxRuns
    /\ apc' = "clamp" /\ aloc' = NoLocals /\ aout' = NoOutcome
    /\ UNCHANGED <<ain, rvars, vvars, evars, gvars, sess>>

RuinNext ==
    \/ RuinClamp \/ RuinChoice \/ RuinChoiceFails \/ RuinEquity \/ RuinAny
    \/ RuinReturn \/ RuinAgain

RuinSpec == RuinInit /\ [][RuinNext]_vars

\* x brought into [lo, hi]
Into(x, lo, hi) == IF x < lo THEN lo ELSE IF x > hi THEN hi ELSE x

\* C16: monte_carlo_ruin never fails and never rejects its inputs: win_rate,
\* payoff and risk_per_trade are clamped into [0.01,0.99], [0.5,10.0] and
\* [0.001,0.2] before the simulation, and for every input, whatever sims
\* and trades, the call returns a number in [0,100].
C16_RuinNeverFails ==
    /\ (ain.engine = "ruin" /\ apc \in {"choice", "equity", "any", "mean"}) =>
          /\ aloc.c.win_rate = Into(ain.win_rate, 1, 99)
          /\ aloc.c.payoff = Into(ain.payoff, 5, 100)
          /\ aloc.c.risk_per_trade = Into(ain.risk_per_trade, 1, 200)
    /\ \A i \in 1..Len(runs) :
          /\ runs[i].out.kind = "return"
          /\ ~runs[i].out.value.nan
          /\ 0 <= runs[i].out.value.num
          /\ runs[i].out.value.num <= 100 * runs[i].out.value.den

\* the cumulative path of one sequence after its first j trades
RECURSIVE PathAt(_, _, _, _)
PathAt(row, j, win, loss) ==
    IF j = 0 THEN 0
    ELSE PathAt(row, j - 1, win, loss) + (IF row[j] = 1 THEN win ELSE -loss)

C18_SameSeedSameRuin ==
    \A i, j \in 1..Len(runs) :
        runs[i].args = runs[j].args => runs[i].out = runs[j].out

(***************************************************************************)
(* Bars and IndicatorEngine.calculate  (src/core/logic/indicators.py;      *)
(* compute_indicators in app.py)                                           *)
(* A bar is [close_final, volume_nan]: the close in cents and whether the  *)
(* volume cell is NaN; open, high, low and close are present.  A derived   *)
(* column is NaN on a bar until its rolling window is full of defined      *)
(* values (pandas min_periods = window).  The statistics that need roots,  *)
(* logarithms or quantiles (ZScore, VolAnn, VaR95, CVaR95) are not         *)
(* computed: the rows carry the values `stats` of the grid.                *)
(***************************************************************************)
MinRows == 30     \* DataConfig.min_rows
W_SMA20 == 20     \* close.rolling(20), logret.rolling(20)
W_SMA50 == 50     \* close.rolling(50)
W_RSI   == 14     \* rolling(14) of gains, losses and true range
W_TAIL  == 60     \* ret.rolling(60)

\* df.dropna(subset=["close_final"]) leaves no NaN close; a source without a
\* volume column gets df["volume"] = np.nan on every bar.
NormalizeBars(raw) ==
    LET kept == SelectSeq(raw.bars, LAMBDA b : ~b.close_nan)
    IN  [i \in 1..Len(kept) |->
            [close_final |-> kept[i].close_final,
             close_nan |-> FALSE,
             volume_nan |-> IF raw.volume_column THEN kept[i].volume_nan ELSE TRUE]]

\* a rolling(window) value at bar i over a column defined from bar `first` on
RollingDefined(first, window, i) == i - window + 1 >= first

\* ret[k] = ret[k-1] for the returns of bars lo..hi (ret = c[k]/c[k-1] - 1)
ConstantReturns(df, lo, hi) ==
    \A k \in (lo + 1)..hi :
        df[k].close_final * df[k - 2].close_final
            = df[k - 1].close_final * df[k - 1].close_final

DerivedColumns ==
    {"ret", "logret", "SMA20", "SMA50", "STD20", "ZScore", "RSI14", "ATR14",
     "Equity", "Peak", "Drawdown", "VolAnn", "Skew60", "Kurt60", "VaR95", "CVaR95"}

\* whether column col of bar i is defined (not NaN)
ColumnDefined(col, df, i) ==
    CASE col \in {"ret", "logret"} -> i >= 2
      [] col \in {"SMA20", "STD20", "ZScore"} -> RollingDefined(1, W_SMA20, i)
      [] col = "SMA50" -> RollingDefined(1, W_SMA50, i)
      [] col = "RSI14" -> RollingDefined(2, W_RSI, i)
      [] col = "ATR14" -> RollingDefined(1, W_RSI, i)
      [] col \in {"Equity", "Peak", "Drawdown"} -> TRUE
      [] col = "VolAnn" -> RollingDefined(2, W_SMA20, i)
      [] col \in {"Skew60", "Kurt60"} ->
            /\ RollingDefined(2, W_TAIL, i)
            /\ ~ConstantReturns(df, i - W_TAIL + 1, i)
      [] col \in {"VaR95", "CVaR95"} -> RollingDefined(2, W_TAIL, i)

\* d.dropna(): a row stays when no cell of it is NaN, input columns included
RowKept(df, i) ==
    /\ ~df[i].volume_nan
    /\ \A col \in DerivedColumns : ColumnDefined(col, df, i)

RECURSIVE SumClose(_, _, _)
SumClose(df, lo, hi) ==
    IF lo > hi THEN 0 ELSE df[hi].close_final + SumClose(df, lo, hi - 1)

\* the running maximum taken over the bars before bar i only
PeakClose_Previous(df, i) ==
    LET closes == {df[k].close_final : k \in 1..(IF i > 1 THEN i - 1 ELSE 1)}
    IN  CHOOSE c \in closes : \A x \in closes : x <= c

\* d["Equity"].cummax() at bar i, times close[1]
PeakClose(df, i) ==
    LET closes == {df[k].close_final : k \in 1..i}
    IN  CHOOSE c \in closes : \A x \in closes : x <= c

\* the row of bar i: rolling means in cents, Drawdown = (Equity - Peak) / Peak
\* in hundredths, Equity being close[i] / close[1]
IndicatorRow(df, i, stats) ==
    [bar |-> i,
     close_final |-> df[i].close_final,
     SMA20 |-> SumClose(df, i - W_SMA20 + 1, i) \div W_SMA20,
     SMA50 |-> SumClose(df, i - W_SMA50 + 1, i) \div W_SMA50,
     ZScore |-> stats.ZScore, VolAnn |-> stats.VolAnn,
     Drawdown |-> -((100 * (PeakClose(df, i) - df[i].close_final))
                        \div PeakClose(df, i)),
     VaR95 |-> stats.VaR95, CVaR95 |-> stats.CVaR95]

\* calculate as a function of the bar series
calculate(df, stats) ==
    LET kept == SelectSeq([i \in 1..Len(df) |-> i], LAMBDA i : RowKept(df, i))
    IN  [k \in 1..Len(kept) |-> IndicatorRow(df, kept[k], stats)]

(***************************************************************************)
(* DataRouter.fetch_prices  (src/core/data/data_router.py 44-188)          *)
(* The environment env holds what each source answers: env.yahoo[period]   *)
(* is the download for a lookback, env.bridge and env.local are the csv    *)
(* files.  A response carries its bars, the close columns it has, whether  *)
(* it has a volume column and whether reading it raises.  None and an      *)
(* empty frame are different values; the attempts list is the one the      *)
(* code appends to, without the timings.                                   *)
(***************************************************************************)
None == [none |-> TRUE, bars |-> <<>>]
DataFrame(bars) == [none |-> FALSE, bars |-> bars]
\* out is not None and not out.empty
Usable(out) == ~out.none /\ out.bars # <<>>

\* line 55
Combos == <<"2y", "1y", "6mo">>

\* lines 70-99, one pass of the loop for the response of one lookback: the
\* length test of line 75 comes before the rows without a close are dropped
\* (line 86); line 93 selects the column "close" itself
YahooAttempt(conf, resp, period) ==
    LET fail(err) == [out |-> None,
                      att |-> [source |-> "yahoo", period |-> period, ok |-> FALSE,
                               err |-> err, rows |-> 0]]
        df == NormalizeBars(resp)
    IN  IF resp.raises THEN fail("download")
        ELSE IF resp.bars = <<>> \/ Len(resp.bars) < conf.min_rows THEN fail("insufficient")
        ELSE IF resp.columns \cap {"adj close", "close"} = {} THEN fail("no close")
        ELSE IF "close" \notin resp.columns THEN fail("KeyError")
        ELSE [out |-> DataFrame(df),
              att |-> [source |-> "yahoo", period |-> period, ok |-> TRUE,
                       rows |-> Len(df)]]

\* the state the three try_ functions share: the value returned, the
\* nonlocal `used` and the attempts list
Tried(out, used, attempts) == [out |-> out, used |-> used, attempts |-> attempts]

\* lines 67-100, from the k-th lookback on
RECURSIVE YahooLoop(_, _, _, _)
YahooLoop(conf, yahoo, k, st) ==
    IF k > Len(Combos) THEN Tried(None, st.used, st.attempts)
    ELSE LET a == YahooAttempt(conf, yahoo[Combos[k]], Combos[k])
             atts == Append(st.attempts, a.att)
         IN  IF ~a.out.none THEN Tried(a.out, "yahoo", atts)
             ELSE YahooLoop(conf, yahoo, k + 1, Tried(None, st.used, atts))

try_yahoo(conf, env, st) == YahooLoop(conf, env.yahoo, 1, st)

\* lines 102-139: a missing column returns None without an attempt; the
\* rows of the ticker keep their NaN closes
try_bridge(conf, env, st) ==
    LET b == env.bridge
        failed == Tried(None, st.used,
                        Append(st.attempts, [source |-> "bridge", ok |-> FALSE, rows |-> 0]))
        out == [i \in 1..Len(b.bars) |->
                   [close_final |-> b.bars[i].close_final,
                    close_nan |-> b.bars[i].close_nan,
                    volume_nan |-> IF b.volume_column THEN b.bars[i].volume_nan ELSE TRUE]]
    IN  IF ~b.exists \/ b.raises THEN failed
        ELSE IF "close" \notin b.columns THEN Tried(None, st.used, st.attempts)
        ELSE IF b.bars = <<>> \/ Len(b.bars) < conf.min_rows THEN failed
        ELSE Tried(DataFrame(out), "bridge",
                   Append(st.attempts, [source |-> "bridge", ok |-> TRUE, rows |-> Len(out)]))

\* lines 141-172: dropna() over all six columns, then the length test; a
\* missing close column or a short file returns None without an attempt
try_local(conf, env, st) ==
    LET l == env.local
        failed == Tried(None, st.used,
                        Append(st.attempts, [source |-> "local", ok |-> FALSE, rows |-> 0]))
        kept == SelectSeq(l.bars, LAMBDA b : ~b.close_nan /\ l.volume_column /\ ~b.volume_nan)
        out == [i \in 1..Len(kept) |->
                   [close_final |-> kept[i].close_final, close_nan |-> FALSE,
                    volume_nan |-> FALSE]]
    IN  IF ~l.exists \/ l.raises THEN failed
        ELSE IF "close" \notin l.columns THEN Tried(None, st.used, st.attempts)
        ELSE IF Len(out) < conf.min_rows THEN Tried(None, st.used, st.attempts)
        ELSE Tried(DataFrame(out), "local",
                   Append(st.attempts, [source |-> "local", ok |-> TRUE, rows |-> Len(out)]))

\* (priority_source or "").strip().lower() on the strings of the catalog
StripLower(ps) ==
    CASE ps = " Local " -> "local" [] ps = "BRIDGE" -> "bridge" [] OTHER -> ps

\* lines 174-177
SourceOrder(priority_source) ==
    LET order == <<"yahoo", "bridge", "local">>
        ps == StripLower(priority_source)
    IN  IF ps \in Range(order)
        THEN <<ps>> \o SelectSeq(order, LAMBDA x : x # ps)
        ELSE order

\* line 181
TrySource(src, conf, env, st) ==
    CASE src = "yahoo" -> try_yahoo(conf, env, st)
      [] src = "bridge" -> try_bridge(conf, env, st)
      [] src = "local" -> try_local(conf, env, st)

\* lines 179-183
RECURSIVE SourceLoop(_, _, _, _, _)
SourceLoop(conf, env, order, k, st) ==
    IF k > Len(order) THEN st
    ELSE LET r == TrySource(order[k], conf, env, st)
         IN  IF Usable(r.out) THEN r ELSE SourceLoop(conf, env, order, k + 1, r)

\* lines 185-188
FetchResult(st) ==
    IF ~Usable(st.out)
    THEN [df |-> None,
          dbg |-> [ok |-> FALSE, source |-> "None", attempts |-> st.attempts,
                   reason |-> "no data"]]
    ELSE [df |-> st.out,
          dbg |-> [ok |-> TRUE, source |-> st.used, attempts |-> st.attempts]]

fetch_prices(conf, env, priority_source) ==
    FetchResult(SourceLoop(conf, env, SourceOrder(priority_source), 1,
                           Tried(None, "None", <<>>)))

(***************************************************************************)
(* One ANALYZE request  (src/interface/pages/deep_dive.py 57-100)          *)
(* cost -> fetch -> indicators -> last/prev -> regime -> score -> ruin ->  *)
(* verdict.  The downloaded series is the only source that has data.  An   *)
(* exception of a step is not caught by the page: it ends the request.     *)
(***************************************************************************)
\* closes that move (returns differ from bar to bar), never move, climb to
\* a peak at bar 40 and fall from it, rise by 5.00 a bar from 10.00, or
\* creep up by 0.01 a bar from 100.00
RawBars(n, shape, gap) ==
    [i \in 1..n |->
        [close_final |-> CASE shape = "flat" -> 1000
                           [] shape = "swing" ->
                                IF i <= 40 THEN 1000 + 5 * i ELSE 1200 - 8 * (i - 40)
                           [] shape = "rising" -> 1000 + 5 * i
                           [] shape = "creeping" -> 10000 + i
                           [] OTHER -> 1000 + 5 * i + 4 * (i % 3),
         close_nan |-> FALSE,
         volume_nan |-> gap /\ i = n]]

\* lengths around min_rows, the 60-return warm-up, the previous-bar lookup
\* and the 5-bar slope
SeriesLengths == {29, 30, 60, 61, 62, 65, 66, 80}

StatsGrid ==
    {[ZScore |-> 0, VolAnn |-> 200, VaR95 |-> -20, CVaR95 |-> -30],
     [ZScore |-> 210, VolAnn |-> 460, VaR95 |-> -40, CVaR95 |-> -60]}

\* with the columns "adj close" and "close", or with no close column at all
RawSeries ==
    {[bars |-> RawBars(n, shape, gap), volume_column |-> vc, stats |-> st,
      columns |-> cols, raises |-> FALSE] :
        n \in SeriesLengths,
        shape \in {"moving", "flat", "swing", "rising", "creeping"}, gap \in BOOLEAN,
        vc \in BOOLEAN, st \in StatsGrid,
        cols \in {{"adj close", "close"}, {}}}

\* profile Defensive and the weights of deep_dive.py line 86
ProfileDefensive == [max_cost_block_bps |-> 22, strict_vol |-> 450, strict_dd_pct |-> -20]
ProfileTrend == [max_cost_block_bps |-> 35, strict_vol |-> 600, strict_dd_pct |-> -35]
ProfileMeanReversion == [max_cost_block_bps |-> 28, strict_vol |-> 550, strict_dd_pct |-> -30]
AnalysisWeights == [trend |-> 50, meanrev |-> 15, risk |-> 35]

\* no bridge file and no local file: every lookback downloads the series
NoFile == [exists |-> FALSE, raises |-> FALSE, columns |-> {},
           volume_column |-> FALSE, bars |-> <<>>]
DownloadOnly(raw) ==
    [yahoo |-> [p \in Range(Combos) |-> raw], bridge |-> NoFile, local |-> NoFile]

Report(what) == [kind |-> "report", what |-> what]

AnalysisInit ==
    /\ ain \in [engine : {"analysis"}, raw : RawSeries, spread : {5, 20},
                 slippage : {5}, fee : {2}, ruin_threshold : {20}]
    /\ apc = "cost" /\ aloc = NoLocals /\ aout = NoOutcome
    /\ VIdle /\ EIdle /\ GIdle /\ SIdle /\ RIdle

AnalyzeStep(pc, next, loc) ==
    /\ ain.engine = "analysis" /\ apc = pc
    /\ apc' = next /\ aloc' = loc
    /\ UNCHANGED <<ain, aout, vvars, evars, gvars, sess, rvars>>

AnalyzeEnds(pc, out) ==
    /\ ain.engine = "analysis" /\ apc = pc
    /\ apc' = "done" /\ aout' = out
    /\ UNCHANGED <<ain, aloc, vvars, evars, gvars, sess, rvars>>

\* lines 58-60
AnalyzeCost ==
    /\ apc = "cost"
    /\ AnalyzeStep("cost", "fetch",
                   [cost |-> compute(ain.spread, ain.slippage, ain.fee,
                                     ProfileDefensive.max_cost_block_bps)])
\* lines 62-66
AnalyzeFetch ==
    /\ apc = "fetch"
    /\ LET r == fetch_prices([min_rows |-> MinRows], DownloadOnly(ain.raw), "")
       IN  AnalyzeStep("fetch", "fetched",
                       [cost |-> aloc.cost, df |-> r.df.bars, dbg |-> r.dbg])
\* lines 67-71: df is None or df.empty; the attempts go to the DEBUG expander
AnalyzeNoData ==
    /\ apc = "fetched" /\ aloc.df = <<>>
    /\ AnalyzeEnds("fetched",
                   [kind |-> "report", what |-> "NO DATA", dbg |-> aloc.dbg])
\* line 73
AnalyzeIndicators ==
    /\ apc = "fetched" /\ aloc.df # <<>>
    /\ AnalyzeStep("fetched", "indicators",
                   [cost |-> aloc.cost, df |-> aloc.df,
                    d |-> calculate(aloc.df, ain.raw.stats)])
\* lines 74-78
AnalyzeIndicatorsFail ==
    /\ apc = "indicators" /\ aloc.d = <<>>
    /\ AnalyzeEnds("indicators", Report("INDICATORS_FAIL"))
\* lines 80-83: last = d.iloc[-1]; prev = d.iloc[-2]
AnalyzeLastPrev ==
    /\ apc = "indicators" /\ Len(aloc.d) >= 2
    /\ AnalyzeStep("indicators", "regime",
                   [cost |-> aloc.cost, df |-> aloc.df, d |-> aloc.d,
                    last |-> ILoc(aloc.d, 1), prev |-> ILoc(aloc.d, 2)])
AnalyzeLastPrevFails ==
    /\ apc = "indicators" /\ Len(aloc.d) = 1
    /\ AnalyzeEnds("indicators", Raised("IndexError", "deep_dive.py:81"))
\* line 85
AnalyzeRegime ==
    /\ apc = "regime" /\ analyze(aloc.d, aloc.cost.total_bps).kind = "return"
    /\ AnalyzeStep("regime", "score",
                   [cost |-> aloc.cost, df |-> aloc.df, d |-> aloc.d,
                    last |-> aloc.last, prev |-> aloc.prev,
                    reg |-> analyze(aloc.d, aloc.cost.total_bps).value])
AnalyzeRegimeFails ==
    /\ apc = "regime" /\ analyze(aloc.d, aloc.cost.total_bps).kind = "raise"
    /\ AnalyzeEnds("regime", analyze(aloc.d, aloc.cost.total_bps))
\* lines 86-87
AnalyzeScore ==
    /\ apc = "score"
    /\ LET mf == multi(aloc.d, aloc.last, aloc.cost.total_bps, aloc.reg.label,
                       AnalysisWeights)
       IN  /\ mf.kind = "return"
           /\ AnalyzeStep("score", "ruin",
                          [cost |-> aloc.cost, df |-> aloc.df, d |-> aloc.d,
                           last |-> aloc.last, prev |-> aloc.prev,
                           reg |-> aloc.reg, mf |-> mf.value])
\* lines 89-90: 2400 sequences of 220 trades; the percentage is whatever the
\* samples give
AnalyzeRuin ==
    /\ apc = "ruin"
    /\ \E ruin \in {0, 30} :
          AnalyzeStep("ruin", "verdict",
                      [cost |-> aloc.cost, df |-> aloc.df, d |-> aloc.d,
                       last |-> aloc.last, prev |-> aloc.prev,
                       reg |-> aloc.reg, mf |-> aloc.mf, ruin |-> ruin])
\* lines 92-100
AnalyzeVerdict ==
    /\ apc = "verdict"
    /\ AnalyzeEnds("verdict",
          [kind |-> "verdict",
           value |-> decide(VerdictInput(aloc.cost.blocked, aloc.reg.label,
                                         aloc.reg.vol, aloc.reg.dd, aloc.reg.score,
                                         aloc.ruin, aloc.mf.final_score,
                                         ProfileDefensive.strict_vol,
                                         ProfileDefensive.strict_dd_pct,
                                         ain.ruin_threshold))])

AnalysisNext ==
    \/ AnalyzeCost \/ AnalyzeFetch \/ AnalyzeNoData \/ AnalyzeIndicators
    \/ AnalyzeIndicatorsFail \/ AnalyzeLastPrev \/ AnalyzeLastPrevFails
    \/ AnalyzeRegime \/ AnalyzeRegimeFails \/ AnalyzeScore \/ AnalyzeRuin
    \/ AnalyzeVerdict

AnalysisSpec == AnalysisInit /\ [][AnalysisNext]_vars

\* C19: insufficient history is reported, never thrown: for a series the
\* minimum-row check accepts, an analysis request either reports that the
\* data is insufficient or produces a verdict; it raises no exception, also
\* when calculate returns fewer rows than the previous-bar lookup (2) or
\* the 5-bar SMA20 slope (6) need.
C19_InsufficientHistoryReported ==
    (ain.engine = "analysis" /\ apc = "done" /\ Len(ain.raw.bars) >= MinRows) =>
        aout.kind \in {"report", "verdict"}

\* the bars (index values) of the rows calculate returned
ExposedBars(d) == {d[k].bar : k \in 1..Len(d)}

\* C20: calculate exposes a row only if every derived field is defined: no
\* output row has a NaN derived field, no bar without 60 preceding returns
\* appears (at most 60 bars in, no rows out), and every bar after the
\* warm-up whose derived fields are all defined is retained.
C20_ExactlyFullyDefinedRowsExposed ==
    (ain.engine = "analysis" /\ apc = "indicators") =>
        LET df == aloc.df
            out == ExposedBars(aloc.d)
            complete(i) == \A col \in DerivedColumns : ColumnDefined(col, df, i)
        IN  /\ \A i \in out : complete(i)
            /\ \A i \in out : i > 60
            /\ Len(df) <= 60 => aloc.d = <<>>
            /\ \A i \in 61..Len(df) : complete(i) => i \in out

\* C21: every row produced by calculate has Drawdown <= 0, for any series
\* of positive closes: Equity never exceeds its running Peak.
C21_DrawdownNeverPositive ==
    (ain.engine = "analysis" /\ apc \in {"indicators", "regime"}) =>
        \A k \in 1..Len(aloc.d) : aloc.d[k].Drawdown <= 0

\* calculate returned rows of positive closes that lie below the running
\* peak, some of them by more than 0.20
C21_Witness ==
    /\ ain.engine = "analysis" /\ apc = "indicators"
    /\ \A i \in 1..Len(aloc.df) : aloc.df[i].close_final > 0
    /\ \E k \in 1..Len(aloc.d) : aloc.d[k].Drawdown \in -20..-1
    /\ \E k \in 1..Len(aloc.d) : aloc.d[k].Drawdown < -20

\* C22: an input series with no close-equivalent column (neither adjusted
\* close nor close) makes the analysis request fail with a DataError that
\* reaches the caller; it does not end in a report or in another error.
C22_MissingCloseIsDataError ==
    (/\ ain.engine = "analysis" /\ apc = "done"
     /\ ain.raw.columns \cap {"adj close", "close"} = {}) =>
        aout.kind = "raise" /\ aout.exc = "DataError"

\* the closes of the series rise from every bar to the next
StrictlyUp(bars) ==
    \A i \in 2..Len(bars) : bars[i].close_final > bars[i - 1].close_final

\* scenario A on the rows of an analysis: strictly uptrending closes,
\* SMA20 > SMA50, ZScore 0, VolAnn < 25, Drawdown 0
ScenarioA ==
    /\ ain.engine = "analysis" /\ apc = "ruin"
    /\ StrictlyUp(ain.raw.bars)
    /\ aloc.last.SMA20 > aloc.last.SMA50
    /\ aloc.last.ZScore = 0 /\ aloc.last.VolAnn < 250 /\ aloc.last.Drawdown = 0

\* C23 as stated: for every series of strictly uptrending closes with
\* SMA20 > SMA50, ZScore about 0, VolAnn < 25 and Drawdown about 0, analyze
\* returns the label UPTREND and trend_score returns more than 70.
C23_UptrendScoresAbove70 ==
    ScenarioA =>
        /\ aloc.reg.label = L_UPTREND
        /\ trend_score(aloc.last, aloc.d) > 700000

\* C23 amended: under the same conditions the label is UPTREND and
\* trend_score is 41.25 + 0.45 * slope_score, at least 63.75; it is more
\* than 70 exactly when the 5-bar SMA20 slope is more than 1/486.
C23_UptrendScoreBySlope ==
    ScenarioA =>
        /\ aloc.reg.label = L_UPTREND
        /\ trend_score(aloc.last, aloc.d) >= 637500
        /\ trend_score(aloc.last, aloc.d) > 700000
              <=> 486 * Slope(aloc.d).num > Slope(aloc.d).den
        /\ aloc.mf.trend_score = RoundDiv(trend_score(aloc.last, aloc.d), 1000)

\* a fast strict uptrend is labelled UPTREND and scores more than 70
C23_Witness ==
    /\ ScenarioA
    /\ aloc.reg.label = L_UPTREND
    /\ aloc.mf.trend_score > 700

(***************************************************************************)
(* Runs of the application script  (src/main.py 28-198)                    *)
(* Streamlit executes main() from top to bottom at boot and again after    *)
(* every widget interaction.  A button is True only in the run its click   *)
(* started; st.session_state lasts across the runs of a session.  The      *)
(* listing of main.py has lost part of its indentation and its             *)
(* `import time`: the statements are taken in their order, with time.time()*)
(* the wall clock in seconds.  aout.fetches logs every price download with *)
(* the button that was pressed in its run.                                 *)
(***************************************************************************)
MaxAppRuns == 3     \* runs of main() in one session

Buttons == {"F2 REFRESH TAPE", "REFRESH NOW", "ANALYZE", "RUN SCREENER"}
NoButton == "none"

\* a download at a site of the source, in the current run
Fetched(site) ==
    Append(aout.fetches, [site |-> site, run |-> aloc.run, pressed |-> aloc.pressed])

AppInit ==
    /\ ain = [engine |-> "app"]
    /\ apc = "boot"
    /\ aloc = [run |-> 0, pressed |-> NoButton, auto |-> TRUE, refresh_sec |-> 15,
               clock |-> 1000, session |-> [tape_items |-> 0]]
    /\ aout = [kind |-> "log", fetches |-> <<>>]
    /\ VIdle /\ EIdle /\ GIdle /\ SIdle /\ RIdle

AppStep(pc, next, loc, out) ==
    /\ ain.engine = "app" /\ apc = pc
    /\ apc' = next /\ aloc' = loc /\ aout' = out
    /\ UNCHANGED <<ain, vvars, evars, gvars, sess, rvars>>

\* the first run: no button is pressed, the widgets have their defaults
\* (st.toggle("AUTO TAPE", value=True), st.slider("REFRESH (s)", 5, 60, 15))
AppBoot ==
    /\ apc = "boot"
    /\ AppStep("boot", "colB", [aloc EXCEPT !.run = 1], aout)

\* a rerun: the user clicks one button, or changes another widget (here the
\* AUTO TAPE toggle or any widget that is not a button); time has passed
AppRerun ==
    /\ apc = "idle" /\ aloc.run < MaxAppRuns
    /\ \E pressed \in Buttons \cup {NoButton}, auto \in BOOLEAN, dt \in {1, 20} :
          /\ pressed # NoButton => auto = aloc.auto
          /\ AppStep("idle", "colB",
                     [aloc EXCEPT !.run = @ + 1, !.pressed = pressed,
                                  !.auto = auto, !.clock = @ + dt],
                     aout)

\* lines 86-115: if st.button("F2 REFRESH TAPE"): yf.download per ticker
AppTapeButton ==
    /\ apc = "colB"
    /\ AppStep("colB", "auto",
               [aloc EXCEPT !.session =
                    IF aloc.pressed = "F2 REFRESH TAPE"
                    THEN [k \in DOMAIN @ |-> IF k = "tape_items" THEN 1 ELSE @[k]]
                    ELSE @],
               IF aloc.pressed = "F2 REFRESH TAPE"
               THEN [aout EXCEPT !.fetches = Fetched("main.py:91")]
               ELSE aout)

\* lines 118-125: auto = st.toggle(..); force = st.button("REFRESH NOW");
\* if auto or force: last_tape_refresh is created as 0
AppAutoBranch ==
    /\ apc = "auto"
    /\ IF aloc.auto \/ aloc.pressed = "REFRESH NOW"
       THEN AppStep("auto", "refresh",
                    [aloc EXCEPT !.session =
                         IF "last_tape_refresh" \in DOMAIN @
                         THEN @ ELSE @ @@ ("last_tape_refresh" :> 0)],
                    aout)
       ELSE AppStep("auto", "tabs", aloc, aout)

\* lines 127-166: if force or (time.time() - last_tape_refresh >= refresh_sec):
\* download per ticker (132), store the time; the download is repeated (153)
AppAutoRefresh ==
    /\ apc = "refresh"
    /\ IF \/ aloc.pressed = "REFRESH NOW"
          \/ aloc.clock - aloc.session["last_tape_refresh"] >= aloc.refresh_sec
       THEN AppStep("refresh", "tabs",
                    [aloc EXCEPT !.session =
                         [k \in DOMAIN @ |->
                             CASE k = "tape_items" -> 1
                               [] k = "last_tape_refresh" -> aloc.clock
                               [] OTHER -> @[k]]],
                    [aout EXCEPT !.fetches =
                         Append(Fetched("main.py:132"),
                                [site |-> "main.py:153", run |-> aloc.run,
                                 pressed |-> aloc.pressed])])
       ELSE AppStep("refresh", "tabs", aloc, aout)

\* line 190, deep_dive.py 57-66: if st.button("ANALYZE"): fetch_prices
AppDeepDive ==
    /\ apc = "tabs"
    /\ AppStep("tabs", "screener", aloc,
               IF aloc.pressed = "ANALYZE"
               THEN [aout EXCEPT !.fetches = Fetched("deep_dive.py:62")]
               ELSE aout)

\* line 192, screener.py 18-27: if st.button("RUN SCREENER"): fetch_prices
AppScreener ==
    /\ apc = "screener"
    /\ AppStep("screener", "idle", aloc,
               IF aloc.pressed = "RUN SCREENER"
               THEN [aout EXCEPT !.fetches = Fetched("screener.py:23")]
               ELSE aout)

AppNext ==
    \/ AppBoot \/ AppRerun \/ AppTapeButton \/ AppAutoBranch \/ AppAutoRefresh
    \/ AppDeepDive \/ AppScreener

AppSpec == AppInit /\ [][AppNext]_vars

FetchMinRows == 2     \* cfg.min_rows of the calls below

GoodBars(n) ==
    [i \in 1..n |-> [close_final |-> 100 + i, close_nan |-> FALSE, volume_nan |-> FALSE]]
\* n bars of which the first `holes` have no close
HoleBars(n, holes) ==
    [i \in 1..n |-> [close_final |-> 100 + i, close_nan |-> i <= holes, volume_nan |-> FALSE]]

Response(raises, columns, volume_column, bars) ==
    [exists |-> TRUE, raises |-> raises, columns |-> columns,
     volume_column |-> volume_column, bars |-> bars]

YahooGood == Response(FALSE, {"adj close", "close"}, TRUE, GoodBars(3))
YahooResponses ==
    {Response(TRUE, {}, FALSE, <<>>),                        \* the download raises
     Response(FALSE, {"adj close", "close"}, TRUE, GoodBars(1)),
     YahooGood,
     Response(FALSE, {}, TRUE, GoodBars(3)),                 \* no close column
     Response(FALSE, {"adj close"}, TRUE, GoodBars(3)),
     Response(FALSE, {"adj close", "close"}, TRUE, HoleBars(3, 2)),
     Response(FALSE, {"adj close", "close"}, TRUE, HoleBars(2, 2))}

BridgeFiles ==
    {NoFile,
     Response(TRUE, {}, FALSE, <<>>),
     Response(FALSE, {}, FALSE, GoodBars(3)),
     Response(FALSE, {"close"}, FALSE, GoodBars(1)),
     Response(FALSE, {"close"}, FALSE, GoodBars(2))}

LocalFiles ==
    {NoFile,
     Response(FALSE, {}, TRUE, GoodBars(3)),
     Response(FALSE, {"close"}, FALSE, GoodBars(3)),
     Response(FALSE, {"close"}, TRUE, GoodBars(3))}

FetchEnvs ==
    {[yahoo |-> [p \in Range(Combos) |->
                    CASE p = "2y" -> y2 [] p = "1y" -> y1 [] OTHER -> y6],
      bridge |-> b, local |-> l] :
        y2 \in YahooResponses,
        y1 \in {r \in YahooResponses : r.raises \/ r = YahooGood \/ r.bars = HoleBars(3, 2)},
        y6 \in {r \in YahooResponses : r = YahooGood \/ r.bars = GoodBars(1)},
        b \in BridgeFiles, l \in LocalFiles}

PrioritySources == {"", "yahoo", "BRIDGE", " Local ", "csv"}

FetchInit ==
    /\ ain \in [engine : {"fetch"}, conf : {[min_rows |-> FetchMinRows]},
                 env : FetchEnvs, priority_source : PrioritySources]
    /\ apc = "order" /\ aloc = NoLocals /\ aout = NoOutcome
    /\ VIdle /\ EIdle /\ GIdle /\ SIdle /\ RIdle

FetchStep(pc, next, loc) ==
    /\ ain.engine = "fetch" /\ apc = pc
    /\ apc' = next /\ aloc' = loc
    /\ UNCHANGED <<ain, aout, vvars, evars, gvars, sess, rvars>>

\* lines 53-54, 174-179
FetchOrder ==
    /\ apc = "order"
    /\ FetchStep("order", "loop",
                 [order |-> SourceOrder(ain.priority_source), k |-> 1, p |-> 1,
                  st |-> Tried(None, "None", <<>>)])

\* lines 69-99: one lookback of try_yahoo
FetchYahooAttempt ==
    /\ apc = "loop" /\ aloc.order[aloc.k] = "yahoo" /\ aloc.p <= Len(Combos)
    /\ LET a == YahooAttempt(ain.conf, ain.env.yahoo[Combos[aloc.p]], Combos[aloc.p])
           atts == Append(aloc.st.attempts, a.att)
       IN  IF ~a.out.none
           THEN FetchStep("loop", "tried",
                          [aloc EXCEPT !.st = Tried(a.out, "yahoo", atts)])
           ELSE FetchStep("loop", "loop",
                          [aloc EXCEPT !.p = @ + 1,
                                       !.st = Tried(None, aloc.st.used, atts)])
\* line 100
FetchYahooGivesUp ==
    /\ apc = "loop" /\ aloc.order[aloc.k] = "yahoo" /\ aloc.p > Len(Combos)
    /\ FetchStep("loop", "tried", aloc)

\* lines 102-139
FetchBridge ==
    /\ apc = "loop" /\ aloc.order[aloc.k] = "bridge"
    /\ FetchStep("loop", "tried",
                 [aloc EXCEPT !.st = try_bridge(ain.conf, ain.env, aloc.st)])
\* lines 141-172
FetchLocal ==
    /\ apc = "loop" /\ aloc.order[aloc.k] = "local"
    /\ FetchStep("loop", "tried",
                 [aloc EXCEPT !.st = try_local(ain.conf, ain.env, aloc.st)])

\* lines 182-183: if out is not None and not out.empty: break
FetchBreak ==
    /\ apc = "tried" /\ Usable(aloc.st.out)
    /\ FetchStep("tried", "after", aloc)
\* line 180: the next source, or the end of the loop
FetchContinue ==
    /\ apc = "tried" /\ ~Usable(aloc.st.out)
    /\ IF aloc.k < Len(aloc.order)
       THEN FetchStep("tried", "loop", [aloc EXCEPT !.k = @ + 1, !.p = 1])
       ELSE FetchStep("tried", "after", aloc)

\* lines 185-188
FetchEnds(out) ==
    /\ ain.engine = "fetch" /\ apc = "after"
    /\ apc' = "done" /\ aout' = out
    /\ UNCHANGED <<ain, aloc, vvars, evars, gvars, sess, rvars>>
FetchNoData ==
    /\ apc = "after" /\ ~Usable(aloc.st.out)
    /\ FetchEnds(FetchResult(aloc.st))
FetchReturn ==
    /\ apc = "after" /\ Usable(aloc.st.out)
    /\ FetchEnds(FetchResult(aloc.st))

FetchNext ==
    \/ FetchOrder \/ FetchYahooAttempt \/ FetchYahooGivesUp \/ FetchBridge
    \/ FetchLocal \/ FetchBreak \/ FetchContinue \/ FetchNoData \/ FetchReturn

FetchSpec == FetchInit /\ [][FetchNext]_vars

\* the order the claim names: yahoo, bridge, local, a recognised priority
\* source first
ExpectedOrder(priority_source) ==
    CASE priority_source = "BRIDGE" -> <<"bridge", "yahoo", "local">>
      [] priority_source = " Local " -> <<"local", "yahoo", "bridge">>
      [] OTHER -> <<"yahoo", "bridge", "local">>

\* what a source returns when it is tried on its own
Series(src) == TrySource(src, ain.conf, ain.env, Tried(None, "None", <<>>)).out

\* the source yields a non-empty series of at least min_rows bars
Yields(src) ==
    Usable(Series(src)) /\ Len(Series(src).bars) >= ain.conf.min_rows

\* the attempts are made source by source in the given order
InOrder(attempts, order) ==
    \A i, j \in 1..Len(attempts) :
        i < j => \E a, b \in 1..Len(order) :
                    a <= b /\ order[a] = attempts[i].source /\ order[b] = attempts[j].source

\* the lookbacks yahoo was asked for: 2y, 1y, 6mo in this order, ending at
\* the first that succeeds
LookbacksShorten(attempts) ==
    LET ya == SelectSeq(attempts, LAMBDA a : a.source = "yahoo")
    IN  /\ Len(ya) <= Len(Combos)
        /\ \A i \in 1..Len(ya) : ya[i].period = Combos[i]
        /\ \A i \in 1..(Len(ya) - 1) : ~ya[i].ok

\* C25: fetch_prices tries yahoo, bridge, local in this order (a recognised
\* priority_source first), within yahoo the lookbacks 2y, 1y, 6mo, stops at
\* the first source that yields a non-empty series of at least min_rows bars
\* and reports its name, makes a bounded number of attempts, and returns
\* (None, ok = false, "no data") if and only if every source fails.
C25_SourcesInOrderFirstYieldWins ==
    (ain.engine = "fetch" /\ apc = "done") =>
        LET order == ExpectedOrder(ain.priority_source)
            good == {k \in 1..Len(order) : Yields(order[k])}
            first == CHOOSE k \in good : \A j \in good : k <= j
        IN  /\ InOrder(aout.dbg.attempts, order)
            /\ LookbacksShorten(aout.dbg.attempts)
            /\ Len(aout.dbg.attempts) <= Len(Combos) + 2
            /\ aout.dbg.ok <=> good # {}
            /\ good # {} =>
                  /\ aout.dbg.source = order[first]
                  /\ aout.df = Series(order[first])
                  /\ \A i \in 1..Len(aout.dbg.attempts) :
                        \E k \in 1..first : aout.dbg.attempts[i].source = order[k]
            /\ good = {} =>
                  /\ aout.df = None
                  /\ aout.dbg.ok = FALSE /\ aout.dbg.reason = "no data"

\* CostEngine -> RegimeEngine -> ScoreEngine -> VerdictEngine on the rows and
\* the ruin estimate of the current analysis (deep_dive.py 58-60, 85-100)
Pipeline(spread, slippage, fee, weights, prof, ruin_threshold) ==
    LET cost == compute(spread, slippage, fee, prof.max_cost_block_bps)
        reg == analyze(aloc.d, cost.total_bps).value
        mf == multi(aloc.d, aloc.last, cost.total_bps, reg.label, weights).value
    IN  [operability |-> reg.score,
         final_score |-> mf.final_score,
         verdict |-> decide(VerdictInput(cost.blocked, reg.label, reg.vol, reg.dd,
                                         reg.score, aloc.ruin, mf.final_score,
                                         prof.strict_vol, prof.strict_dd_pct,
                                         ruin_threshold))]

\* amounts added to a cost component, in bps
CostRaises == {0, 1, 10, 60}
PipelineWeights ==
    {AnalysisWeights, [trend |-> 15, meanrev |-> 50, risk |-> 35],
     [trend |-> 100, meanrev |-> 0, risk |-> 0]}
PipelineProfiles == {ProfileDefensive, ProfileTrend, ProfileMeanReversion}

\* C26: raising a cost component never de-escalates the verdict: for the
\* same rows, ruin estimate, weights and thresholds, when spread, slippage
\* or fee increases, operability and final_score do not increase and the
\* status of the full pipeline is the same or more severe.
C26_CostNeverDeescalates ==
    (ain.engine = "analysis" /\ apc = "done" /\ aout.kind = "verdict") =>
        /\ Pipeline(ain.spread, ain.slippage, ain.fee, AnalysisWeights,
                    ProfileDefensive, ain.ruin_threshold).verdict = aout.value
        /\ \A w \in PipelineWeights, prof \in PipelineProfiles :
           \A ds, dl, df \in CostRaises :
              LET lo == Pipeline(ain.spread, ain.slippage, ain.fee, w, prof,
                                 ain.ruin_threshold)
                  hi == Pipeline(ain.spread + ds, ain.slippage + dl, ain.fee + df,
                                 w, prof, ain.ruin_threshold)
              IN  /\ hi.operability <= lo.operability
                  /\ hi.final_score <= lo.final_score
                  /\ Rank(hi.verdict.status) >= Rank(lo.verdict.status)

\* an analysis that ends AUTORIZADO, whose operability and final_score fall
\* and whose status becomes BLOQUEIO when the spread is raised by 10 bps
C26_Witness ==
    /\ ain.engine = "analysis" /\ apc = "done" /\ aout.kind = "verdict"
    /\ aout.value.status = "AUTORIZADO"
    /\ LET lo == Pipeline(ain.spread, ain.slippage, ain.fee, AnalysisWeights,
                          ProfileDefensive, ain.ruin_threshold)
           hi == Pipeline(ain.spread + 10, ain.slippage, ain.fee, AnalysisWeights,
                          ProfileDefensive, ain.ruin_threshold)
       IN  /\ hi.operability < lo.operability
           /\ hi.final_score < lo.final_score
           /\ hi.verdict.status = "BLOQUEIO"

(***************************************************************************)
(* OrderFlowSpec: the ledger written by the application alone              *)
(* The only INSERT INTO ledger of the repository is SQLiteStore.log_order, *)
(* and its only callers are the LOG ORDER handlers (deep_dive.py 183-202,  *)
(* app.py 1885-1905).  max_daily_loss_pct comes from the configuration     *)
(* file and may be 0.                                                      *)
(***************************************************************************)
OrderFlowInit ==
    /\ cfg \in {CfgDefault, [CfgDefault EXCEPT !.max_daily_loss_pct = 0]}
    /\ broker_online = TRUE /\ positions = {}
    /\ now \in SessionTimes /\ today = 0 /\ ledger = <<>>
    /\ SIdle /\ VIdle /\ GIdle /\ AIdle /\ RIdle

OrderFlowNext ==
    \/ \E s \in Sessions : Submit(s)
    \/ \E s \in Sessions : LogOrder(s)
    \/ \E s \in Sessions : EndRun(s)
    \/ ClockMoves
    \/ NewUtcDay

OrderFlowSpec == OrderFlowInit /\ [][OrderFlowNext]_vars

\* the submission of session s was denied by the kill switch
KillSwitchDenied(s) ==
    /\ sess[s].pc = "blocked"
    /\ sess[s].safety.reason # <<>>
    /\ sess[s].safety.reason[1] = "KILL_SWITCH_DAILY_LOSS"

\* C27: every ledger row the order flow writes carries realized_pnl = 0, so
\* after any sequence of validate and log_order operations the realized
\* P&L of the current UTC day is 0 and the kill switch denies no submission
\* made with capital * max_daily_loss_pct > 0.
C27_KillSwitchNeverDenies ==
    /\ \A i \in 1..Len(ledger) : ledger[i].realized_pnl = 0
    /\ daily_realized_pnl(ledger, today) = 0
    /\ \A c \in Capitals :
          c * cfg.max_daily_loss_pct > 0 => _kill_switch(cfg, ledger, today, c).ok
    /\ \A s \in Sessions :
          sess[s].capital * cfg.max_daily_loss_pct > 0 => ~KillSwitchDenied(s)

\* a submission is accepted on a day on which an order was already logged
C27_Witness ==
    /\ cfg.max_daily_loss_pct > 0
    /\ \E i \in 1..Len(ledger) : ledger[i].date = today
    /\ \E s \in Sessions : sess[s].pc = "accepted" /\ sess[s].safety.ok

(***************************************************************************)
(* UniverseSpec: sessions seeding and upserting the universe table         *)
(*   src/core/data/universe_loader.py 24-28,                               *)
(*   src/database/sqlite_store.py 26-54, 83-115                            *)
(* Every session has its own connection.  A SELECT outside a transaction   *)
(* reads the committed table; the first INSERT of a connection opens its   *)
(* transaction and takes the write lock of the database (one writer, the   *)
(* others wait up to timeout = 30 s); the rows it inserted are visible to  *)
(* itself at once and to the others when the `with` block commits.  The    *)
(* table has an index on ticker_yahoo, not a UNIQUE constraint.            *)
(* aloc.table is the committed table (the tickers in id order),            *)
(* aloc.lock the session that holds the write lock, aloc.ses the calls in  *)
(* progress; aout.log lists the calls that returned.                       *)
(***************************************************************************)
MaxCalls == 2     \* calls a session makes

\* DEFAULT_UNIVERSE, its first two rows
DefaultUniverse == <<"PETR4.SA", "VALE3.SA">>
\* row lists of import_csv: a repeated ticker, a blank ticker
UpsertRows == {<<"PETR4.SA", "PETR4.SA">>, <<" ", "BTC-USD">>}

\* str(r.get("ticker_yahoo", "")).strip()
Strip(t) == IF t = " " THEN "" ELSE t

IdleCall ==
    [pc |-> "idle", call |-> "none", rows |-> <<>>, i |-> 1, exists |-> FALSE,
     pending |-> <<>>, ins |-> 0, present |-> FALSE, calls |-> 0]

UniverseInit ==
    /\ ain = [engine |-> "universe"]
    /\ apc = "run"
    /\ aloc = [table |-> <<>>, lock |-> "none", ses |-> [s \in Sessions |-> IdleCall]]
    /\ aout = [kind |-> "returns", log |-> <<>>]
    /\ VIdle /\ EIdle /\ GIdle /\ SIdle /\ RIdle

UniverseStep(loc, out) ==
    /\ ain.engine = "universe"
    /\ aloc' = loc /\ aout' = out
    /\ UNCHANGED <<ain, apc, vvars, evars, gvars, sess, rvars>>

\* what the connection of session s reads: the committed rows and its own
Visible(s) == Range(aloc.table) \cup Range(aloc.ses[s].pending)

\* upsert_universe_rows(rows) begins: ins = 0 (line 84)
BeginUpsert(s, call, rows) ==
    [aloc.ses[s] EXCEPT !.pc = "loop", !.call = call, !.rows = rows, !.i = 1,
                        !.pending = <<>>, !.ins = 0,
                        !.present = \A k \in 1..Len(rows) :
                                       Strip(rows[k]) \in Range(aloc.table) \cup {""}]

\* a return of the call in progress
ReturnsCall(s, ret) ==
    Append(aout.log, [session |-> s, call |-> aloc.ses[s].call,
                      present |-> aloc.ses[s].present, ret |-> ret])

\* a session calls import_csv -> upsert_universe_rows(rows)
UpsertCall(s) ==
    /\ aloc.ses[s].pc = "idle" /\ aloc.ses[s].calls < MaxCalls
    /\ \E rows \in UpsertRows \cup {DefaultUniverse} :
          UniverseStep([aloc EXCEPT !.ses[s] = BeginUpsert(s, "upsert", rows)], aout)

\* a session boots: UniverseLoader.load -> ensure_seed
EnsureSeedCall(s) ==
    /\ aloc.ses[s].pc = "idle" /\ aloc.ses[s].calls < MaxCalls
    /\ UniverseStep([aloc EXCEPT !.ses[s].pc = "seed", !.ses[s].call = "ensure_seed",
                                 !.ses[s].present = FALSE],
                    aout)

\* universe_loader.py 25-27: existing = self.store.get_universe();
\* if existing: return 0
EnsureSeedSeeded(s) ==
    /\ aloc.ses[s].pc = "seed" /\ aloc.table # <<>>
    /\ UniverseStep([aloc EXCEPT !.ses[s].pc = "idle", !.ses[s].calls = @ + 1],
                    [aout EXCEPT !.log = ReturnsCall(s, 0)])
\* universe_loader.py 28
EnsureSeedEmpty(s) ==
    /\ aloc.ses[s].pc = "seed" /\ aloc.table = <<>>
    /\ UniverseStep([aloc EXCEPT !.ses[s] =
                        BeginUpsert(s, "ensure_seed", DefaultUniverse)],
                    aout)

\* lines 87-89: if not ticker: continue
UpsertBlank(s) ==
    LET c == aloc.ses[s]
    IN  /\ c.pc = "loop" /\ c.i <= Len(c.rows) /\ Strip(c.rows[c.i]) = ""
        /\ UniverseStep([aloc EXCEPT !.ses[s].i = @ + 1], aout)
\* lines 91-94: exists = conn.execute("SELECT 1 ... LIMIT 1").fetchone()
UpsertSelect(s) ==
    LET c == aloc.ses[s]
    IN  /\ c.pc = "loop" /\ c.i <= Len(c.rows) /\ Strip(c.rows[c.i]) # ""
        /\ UniverseStep([aloc EXCEPT !.ses[s].pc = "check",
                                     !.ses[s].exists = Strip(c.rows[c.i]) \in Visible(s)],
                        aout)
\* lines 96-97: if exists: continue
UpsertSkip(s) ==
    LET c == aloc.ses[s]
    IN  /\ c.pc = "check" /\ c.exists
        /\ UniverseStep([aloc EXCEPT !.ses[s].pc = "loop", !.ses[s].i = @ + 1], aout)
\* lines 99-114: INSERT INTO universe ...; ins += 1
UpsertInsert(s) ==
    LET c == aloc.ses[s]
    IN  /\ c.pc = "check" /\ ~c.exists
        /\ aloc.lock \in {"none", s}
        /\ UniverseStep([aloc EXCEPT !.lock = s,
                                     !.ses[s].pc = "loop", !.ses[s].i = @ + 1,
                                     !.ses[s].pending = Append(@, Strip(c.rows[c.i])),
                                     !.ses[s].ins = @ + 1],
                        aout)
\* lines 85, 115: the with block commits; return ins
UpsertCommit(s) ==
    LET c == aloc.ses[s]
    IN  /\ c.pc = "loop" /\ c.i > Len(c.rows)
        /\ UniverseStep([aloc EXCEPT !.table = @ \o c.pending,
                                     !.lock = IF @ = s THEN "none" ELSE @,
                                     !.ses[s].pc = "idle", !.ses[s].pending = <<>>,
                                     !.ses[s].calls = @ + 1],
                        [aout EXCEPT !.log = ReturnsCall(s, c.ins)])

UniverseNext ==
    \/ \E s \in Sessions : UpsertCall(s)
    \/ \E s \in Sessions : EnsureSeedCall(s)
    \/ \E s \in Sessions : EnsureSeedSeeded(s)
    \/ \E s \in Sessions : EnsureSeedEmpty(s)
    \/ \E s \in Sessions : UpsertBlank(s)
    \/ \E s \in Sessions : UpsertSelect(s)
    \/ \E s \in Sessions : UpsertSkip(s)
    \/ \E s \in Sessions : UpsertInsert(s)
    \/ \E s \in Sessions : UpsertCommit(s)

UniverseSpec == UniverseInit /\ [][UniverseNext]_vars

\* C28: after any interleaving of concurrent ensure_seed and
\* upsert_universe_rows calls, one per session at a time, the universe table
\* holds at most one row per ticker_yahoo, and an upsert of rows that are
\* all present already inserts nothing and returns 0.
C28_OneRowPerTicker ==
    ain.engine = "universe" =>
        /\ \A i, j \in 1..Len(aloc.table) :
              i < j => aloc.table[i] # aloc.table[j]
        /\ \A k \in 1..Len(aout.log) : aout.log[k].present => aout.log[k].ret = 0

(***************************************************************************)
(* float64 arithmetic of monte_carlo_ruin                                  *)
(*   src/core/logic/risk.py 10-19, src/app.py 1227-1236                    *)
(* The arguments, the array pnl and its cumsum are IEEE 754 binary64       *)
(* numbers.  A number is a sign and a magnitude; the magnitude is a        *)
(* fixed-point window of Limbs limbs of LimbBits bits, IntBits of them     *)
(* before the binary point, whose set bits span at most 53 positions.      *)
(* Sums, differences and products are formed exactly in the window and     *)
(* rounded once to 53 significant bits, to nearest, ties to even.  The     *)
(* window holds every number of these computations exactly: magnitudes     *)
(* are below 2^IntBits, not below 2^-10 when they are created, and the     *)
(* payoff has its bits at 2^-2 or above.                                   *)
(***************************************************************************)
LimbBits == 12     \* bits of a limb
Limbs    == 6      \* limbs of a magnitude
IntBits  == 4      \* bits before the binary point
Precision == 53    \* significand bits of a float64

Base  == 2 ^ LimbBits
Width == Limbs * LimbBits
\* a function on 1..Limbs as a tuple of limbs
Tuple(f) == SubSeq(f, 1, Limbs)
ZeroLimbs == Tuple([k \in 1..Limbs |-> 0])
\* bit i of a magnitude, of weight 2^(IntBits - i)
Bit(a, i) == (a[((i - 1) \div LimbBits) + 1] \div (2 ^ (LimbBits - 1 - ((i - 1) % LimbBits)))) % 2
\* the bit of weight 2^(IntBits - i) alone
UnitBit(i) ==
    Tuple([k \in 1..Limbs |->
              IF ((i - 1) \div LimbBits) + 1 = k THEN 2 ^ (k * LimbBits - i) ELSE 0])

\* what the limbs after k carry into limb k (a borrow is a carry of -1)
RECURSIVE Carry(_, _)
Carry(s, k) == IF k = Limbs THEN 0 ELSE (s[k + 1] + Carry(s, k + 1)) \div Base
\* limb sums brought back into 0..Base-1
Normal(s) == Tuple([k \in 1..Limbs |-> (s[k] + Carry(s, k)) % Base])
\* a + b, exact
AddLimbs(a, b) == Normal(Tuple([k \in 1..Limbs |-> a[k] + b[k]]))
\* a - b for a >= b, exact
SubLimbs(a, b) == Normal(Tuple([k \in 1..Limbs |-> a[k] - b[k]]))
\* a < b
LessLimbs(a, b) ==
    \E k \in 1..Limbs : a[k] < b[k] /\ \A j \in 1..(k - 1) : a[j] = b[j]
\* limb k of a, 0 outside the window
Limb(a, k) == IF k \in 1..Limbs THEN a[k] ELSE 0
\* a * 2^(-n), exact while the bits stay in the window
ShiftLimbs(a, n) ==
    LET q == n \div LimbBits
        r == n % LimbBits
    IN  Tuple([k \in 1..Limbs |->
                  (Limb(a, k - q) \div (2 ^ r))
                  + (Limb(a, k - q - 1) % (2 ^ r)) * (2 ^ (LimbBits - r))])

\* round to nearest, ties to even, at 53 significant bits; sticky tells that
\* the exact value has bits beyond the window
RoundLimbs(a, sticky) ==
    IF a = ZeroLimbs THEN a
    ELSE LET h == CHOOSE i \in 1..Width :
                      Bit(a, i) = 1 /\ \A j \in 1..(i - 1) : Bit(a, j) = 0
             last == h + Precision - 1
         IN  IF last >= Width THEN a
             ELSE LET rest == sticky \/ \E j \in (last + 2)..Width : Bit(a, j) = 1
                      up == Bit(a, last + 1) = 1 /\ (rest \/ Bit(a, last) = 1)
                      kept == Tuple([k \in 1..Limbs |->
                                  IF last >= k * LimbBits THEN a[k]
                                  ELSE IF last <= (k - 1) * LimbBits THEN 0
                                  ELSE a[k] - (a[k] % (2 ^ (k * LimbBits - last)))])
                  IN  IF up THEN AddLimbs(kept, UnitBit(last)) ELSE kept

\* the remainder of k/d after the limbs 1..j
RECURSIVE Rem(_, _, _)
Rem(k, d, j) ==
    IF j = 0 THEN k
    ELSE IF j = 1 THEN (k * (2 ^ (LimbBits - IntBits))) % d
    ELSE (Rem(k, d, j - 1) * Base) % d
\* the float64 nearest to k/d, for 0 <= k/d < 2^IntBits
Float(k, d) ==
    LET digits == Tuple([j \in 1..Limbs |->
                     IF j = 1 THEN (k * (2 ^ (LimbBits - IntBits))) \div d
                     ELSE (Rem(k, d, j - 1) * Base) \div d])
    IN  [neg |-> FALSE, mag |-> RoundLimbs(digits, Rem(k, d, Limbs) # 0)]

FNeg(x) == [neg |-> ~x.neg /\ x.mag # ZeroLimbs, mag |-> x.mag]
\* x < y
FLess(x, y) ==
    IF x.neg # y.neg THEN x.neg
    ELSE IF x.neg THEN LessLimbs(y.mag, x.mag) ELSE LessLimbs(x.mag, y.mag)
\* x + y, rounded once
FAdd(x, y) ==
    IF x.neg = y.neg
    THEN [neg |-> x.neg, mag |-> RoundLimbs(AddLimbs(x.mag, y.mag), FALSE)]
    ELSE IF x.mag = y.mag THEN [neg |-> FALSE, mag |-> ZeroLimbs]
    ELSE IF LessLimbs(x.mag, y.mag)
    THEN [neg |-> y.neg, mag |-> RoundLimbs(SubLimbs(y.mag, x.mag), FALSE)]
    ELSE [neg |-> x.neg, mag |-> RoundLimbs(SubLimbs(x.mag, y.mag), FALSE)]
\* the sum of the shifts of v by the bits of u at the positions in S
RECURSIVE MulLimbs(_, _, _)
MulLimbs(u, v, S) ==
    IF S = {} THEN ZeroLimbs
    ELSE LET p == CHOOSE n \in S : TRUE
         IN  AddLimbs(MulLimbs(u, v, S \ {p}), ShiftLimbs(v, p - IntBits))
\* x * y for x, y >= 0, rounded once
FMul(x, y) ==
    [neg |-> FALSE,
     mag |-> RoundLimbs(MulLimbs(x.mag, y.mag, {i \in 1..Width : Bit(x.mag, i) = 1}), FALSE)]

\* max(lo, min(hi, x)) on float64
FClamp(x, lo, hi) ==
    LET m == IF FLess(x, hi) THEN x ELSE hi
    IN  IF FLess(lo, m) THEN m ELSE lo

(***************************************************************************)
(* Ruin64Spec: monte_carlo_ruin with payoff, risk_per_trade, pnl and       *)
(* equity in float64.  win_rate stays in hundredths: it only decides the   *)
(* outcomes.  payoff is given in quarters, risk_per_trade as the float64   *)
(* nearest to a quotient k/d.                                              *)
(***************************************************************************)
\* lines 11-13
ClampArgs64(a) ==
    [win_rate |-> clamp(a.win_rate, 1, 99),
     payoff |-> FClamp(Float(a.payoff, 4), Float(1, 2), Float(10, 1)),
     risk_per_trade |-> FClamp(Float(a.risk[1], a.risk[2]), Float(1, 1000), Float(2, 10))]

\* pnl = np.where(outcomes == 1, payoff * risk_per_trade, -risk_per_trade)
Pnl64(o, c) ==
    IF o = 1 THEN FMul(c.payoff, c.risk_per_trade) ELSE FNeg(c.risk_per_trade)

\* equity = pnl.cumsum(axis=1), one row: each partial sum is the float64
\* sum of the partial sum before it and the trade's pnl
RECURSIVE CumSum64(_, _)
CumSum64(row, c) ==
    IF row = <<>> THEN <<>>
    ELSE LET n == Len(row)
             before == CumSum64(SubSeq(row, 1, n - 1), c)
         IN  Append(before,
                    IF n = 1 THEN Pnl64(row[n], c)
                    ELSE FAdd(before[n - 1], Pnl64(row[n], c)))

\* ruin = (equity < -0.50).any(axis=1), one row
Ruined64(eq) == \E j \in 1..Len(eq) : FLess(eq[j], FNeg(Float(1, 2)))

\* the all-loss, the all-win and a mixed generator
RandomCycles64 == {<<99, 99, 99, 99, 99>>, <<0, 0, 0, 0, 0>>, <<50, 99, 50, 99, 0>>}

\* risk_per_trade 1/18, 1/40, 1/8, 1/10 and, outside the clamping range,
\* 1/2 and 0; payoff 0.25 (outside the range), 1.5 and 3
Ruin64Inputs ==
    [engine : {"ruin64"}, win_rate : {1, 50}, payoff : {1, 6, 12},
     risk : {<<1, 18>>, <<1, 40>>, <<1, 8>>, <<1, 10>>, <<1, 2>>, <<0, 1>>},
     sims : {0, 1, 2}, trades : {2, 4, 5, 9}]

Ruin64Init ==
    /\ ain \in Ruin64Inputs
    /\ apc = "clamp" /\ aloc = NoLocals /\ aout = NoOutcome
    /\ np_random \in RandomCycles64 /\ runs = <<>>
    /\ VIdle /\ EIdle /\ GIdle /\ SIdle

\* lines 11-13
Ruin64Clamp ==
    /\ ain.engine = "ruin64" /\ apc = "clamp"
    /\ aloc' = [c |-> ClampArgs64(ain)]
    /\ apc' = "choice"
    /\ UNCHANGED <<ain, aout, rvars, vvars, evars, gvars, sess>>
\* line 15
Ruin64Choice ==
    /\ ain.engine = "ruin64" /\ apc = "choice"
    /\ aloc' = [c |-> aloc.c,
                outcomes |-> Choice(np_random, ain.sims, ain.trades, aloc.c.win_rate)]
    /\ np_random' = Advance(np_random, ain.sims * ain.trades)
    /\ apc' = "equity"
    /\ UNCHANGED <<ain, aout, runs, vvars, evars, gvars, sess>>
\* lines 16-17
Ruin64Equity ==
    /\ ain.engine = "ruin64" /\ apc = "equity"
    /\ aloc' = [c |-> aloc.c, outcomes |-> aloc.outcomes,
                equity |-> [i \in 1..ain.sims |-> CumSum64(aloc.outcomes[i], aloc.c)]]
    /\ apc' = "any"
    /\ UNCHANGED <<ain, aout, rvars, vvars, evars, gvars, sess>>
\* line 18
Ruin64Any ==
    /\ ain.engine = "ruin64" /\ apc = "any"
    /\ aloc' = [c |-> aloc.c, outcomes |-> aloc.outcomes, equity |-> aloc.equity,
                ruin |-> [i \in 1..ain.sims |-> Ruined64(aloc.equity[i])]]
    /\ apc' = "mean"
    /\ UNCHANGED <<ain, aout, rvars, vvars, evars, gvars, sess>>
\* line 19
Ruin64Return ==
    /\ ain.engine = "ruin64" /\ apc = "mean"
    /\ aout' = Returned(MeanPct(aloc.ruin))
    /\ runs' = Append(runs, RunRecord(ain, aout'))
    /\ apc' = "done"
    /\ UNCHANGED <<ain, aloc, np_random, vvars, evars, gvars, sess>>

Ruin64Next == Ruin64Clamp \/ Ruin64Choice \/ Ruin64Equity \/ Ruin64Any \/ Ruin64Return

Ruin64Spec == Ruin64Init /\ [][Ruin64Next]_vars

\* trades * risk_per_trade <= 0.50, for the exact value of the clamped float64
WithinHalf(trades, risk) ==
    ~LessLimbs(Float(1, 2).mag,
               Normal(Tuple([k \in 1..Limbs |-> risk.mag[k] * trades])))

\* C29: when trades times the clamped risk_per_trade is at most 0.50,
\* monte_carlo_ruin (with at least one simulation) returns 0, whatever the
\* outcomes, win_rate and payoff: no row of equity falls strictly below
\* -0.50.
C29_SmallRiskNeverRuins ==
    (ain.engine = "ruin64" /\ apc = "done" /\ ain.sims >= 1
       /\ WithinHalf(ain.trades, aloc.c.risk_per_trade)) =>
        /\ aout = Returned(Number(0, ain.sims))
        /\ \A i \in 1..ain.sims : ~aloc.ruin[i]

(***************************************************************************)
(* Windows of the safety configuration  (safety_guard.py 37-52,            *)
(* app.py 1326-1341)                                                       *)
(***************************************************************************)
\* the three windows _is_trading_time tests
Windows(c) ==
    {<<c.auction_pre_open_start, c.auction_pre_open_end>>,
     <<c.auction_close_start, c.auction_close_end>>,
     <<c.open_hhmm, c.close_hhmm>>}
\* minutes after midnight of a configured "HH:MM"
MinuteOfDay(hhmm) == 60 * _parse_hhmm(hhmm)[1] + _parse_hhmm(hhmm)[2]

\* C30: a window whose start is later than its end is matched by _in_range
\* at no time, so validate never returns ok with such a trading window; a
\* window with start <= end matches exactly the times from start:00 to
\* end:00 of the day, both inclusive.
C30_WindowsDoNotWrapMidnight ==
    /\ \A w \in Windows(cfg) :
          _in_range(now, w[1], w[2]) <=>
              /\ MinuteOfDay(w[1]) <= MinuteOfDay(w[2])
              /\ 60 * MinuteOfDay(w[1]) <= SecondOfDay(now)
              /\ SecondOfDay(now) <= 60 * MinuteOfDay(w[2])
    /\ (gpc = "returned" /\ MinuteOfDay(cfg.open_hhmm) > MinuteOfDay(cfg.close_hhmm))
          => ~gres.ok

\* a validate call at 23:00 with the trading window 22:00-02:00 passed the
\* ping and was denied as outside market hours
C30_Witness ==
    /\ cfg = CfgNight /\ now = Time(23, 0, 0) /\ gpc = "returned"
    /\ gtrace = <<"ping", "time">>
    /\ gres = Result(FALSE, <<"OUTSIDE_MARKET_HOURS">>)

====
